---------------------------- MODULE Spec2Model ----------------------------
(***************************************************************************)
(* Location-bound messaging: the attestation verification pipeline         *)
(* (backend location module), the REST message store with its unlock       *)
(* endpoint (backend server), the key derivation and AES-GCM sealing       *)
(* helpers (backend and browser crypto modules) and the compose / viewer   *)
(* handlers that call them.                                                *)
(*                                                                         *)
(* Units.  Coordinates are integers counting 1e-7 degree, so that          *)
(* Number.prototype.toFixed(6) is a real rounding.  Distances are whole    *)
(* millimetres, times are milliseconds (Date.now()).  A radius or a speed  *)
(* ceiling is a JavaScript number; radii are carried in millimetres and    *)
(* speed ceilings in m/s (= mm/ms).                                        *)
(*                                                                         *)
(* Optional values (a `?:` field, a value that may be undefined) are       *)
(* sequences of length at most one: None is <<>>, Some(x) is <<x>>.        *)
(*                                                                         *)
(* The cryptographic primitives of tweetnacl, node:crypto and Web Crypto   *)
(* are symbolic: a signature, a MAC or a ciphertext is the term built from *)
(* its inputs, so two of them are equal exactly when their inputs are.     *)
(***************************************************************************)
EXTENDS Integers, Sequences, FiniteSets, TLC

VARIABLES
  now,          \* Date.now() of the verifying machine
  att,          \* the attestation of the current unlock attempt (Option)
  cfg,          \* the VerificationConfig of a direct verification call
  result,       \* the outcome of verifyLocationAttestation for this attempt (Option)
  messages,     \* the server's Map<string, StoredMessage>
  response,     \* the HTTP exchange the server answered last (Option)
  kdf,          \* key-derivation bench: the inputs and the keys derived from them
  compose,      \* ComposeMessage component state
  viewer,       \* MessageViewer component state
  relay         \* the signaling server: peers, connectedPeers, each connection's peerId

vars == <<now, att, cfg, result, messages, response, kdf, compose, viewer, relay>>

None == <<>>
Some(x) == <<x>>
IsSome(o) == Len(o) = 1
Get(o) == o[1]
\* JavaScript's `o ?? d`
OrElse(o, d) == IF IsSome(o) THEN Get(o) ELSE d

Abs(x) == IF x < 0 THEN 0 - x ELSE x

RECURSIVE ISqrtBetween(_, _, _)
\* the k with k * k <= n < (k + 1) * (k + 1), given lo * lo <= n < hi * hi
ISqrtBetween(n, lo, hi) ==
  IF hi - lo <= 1 THEN lo
  ELSE LET mid == (lo + hi) \div 2
       IN IF mid * mid <= n THEN ISqrtBetween(n, mid, hi)
          ELSE ISqrtBetween(n, lo, mid)
\* floor of the square root of a 31-bit n
ISqrt(n) == ISqrtBetween(n, 0, 46341)

----------------------------------------------------------------------------
(* Bounds of the model *)

\* the verifier's clock when the model starts (ms)
T0 == 400000
\* longest movement history a device sends
MaxHist == 2

----------------------------------------------------------------------------
(* Number formatting *)

\* x.toFixed(6) of a coordinate x given in 1e-7 degree: the sign, then the
\* magnitude rounded to 1e-6 degree (ties to the larger digit string).
\* (-0.0000001).toFixed(6) is "-0.000000": the sign is printed even when
\* every digit is 0.
toFixed6(x) == [neg |-> x < 0, micro |-> (Abs(x) + 5) \div 10]

----------------------------------------------------------------------------
(* Ed25519 (backend crypto module over tweetnacl) *)

SignatureBytes == 64

\* nacl.sign.keyPair(): key pair i has public key [pk |-> i], secret [sk |-> i]
publicKeyOf(i) == [pk |-> i]
privateKeyOf(i) == [sk |-> i]

signMessage(message, privateKey) ==
  [size |-> SignatureBytes, msg |-> message, by |-> privateKey.sk]

\* nacl.sign.detached.verify throws on a signature of the wrong size
verifySignatureThrows(signature) == signature.size # SignatureBytes

verifySignature(message, signature, publicKey) ==
  /\ signature.msg = message
  /\ publicKeyOf(signature.by) = publicKey

----------------------------------------------------------------------------
(* Attestations *)

canonicalMessage(deviceId, latitude, longitude, accuracy, timestamp) ==
  [deviceId |-> deviceId, lat |-> toFixed6(latitude), lon |-> toFixed6(longitude),
   accuracy |-> accuracy, timestamp |-> timestamp]

\* `clock` is the device's Date.now(); `history` is context.movementHistory (Option)
createLocationAttestation(deviceId, devicePrivateKey, devicePublicKey, latitude, longitude, accuracy, history, clock) ==
  [deviceId |-> deviceId,
   devicePublicKey |-> devicePublicKey,
   latitude |-> latitude,
   longitude |-> longitude,
   accuracy |-> accuracy,
   timestamp |-> clock,
   movementHistory |-> history,
   signature |-> signMessage(
       canonicalMessage(deviceId, latitude, longitude, accuracy, clock),
       devicePrivateKey)]

\* a verification that looks only at who signed; defined for comparison
verifyAttestationSignatureAnyPayload(attestation) ==
  publicKeyOf(attestation.signature.by) = attestation.devicePublicKey

verifyAttestationSignature(attestation) ==
  verifySignature(
    canonicalMessage(attestation.deviceId, attestation.latitude,
                     attestation.longitude, attestation.accuracy,
                     attestation.timestamp),
    attestation.signature,
    attestation.devicePublicKey)

----------------------------------------------------------------------------
(* Distance *)

\* R * pi / 180 * 1e-7 m, in micrometres: the arc length of one coordinate
\* unit on a sphere of radius R = 6 371 000 m
MicrometresPerUnit == 11119

\* Haversine distance in whole millimetres.  Along a meridian or along the
\* equator the haversine formula gives R times the angle.  The model's
\* coordinates lie within 0.02 degree of (0, 0), where the great-circle
\* distance of two points that differ in both coordinates is the planar one
\* to well below a millimetre; it is taken on whole coordinate units, and
\* on a grid of 16 units once a difference exceeds 32767 units.
calculateDistance(lat1, lon1, lat2, lon2) ==
  LET dLat == Abs(lat2 - lat1)
      dLon == Abs(lon2 - lon1)
      arc == IF dLon = 0 THEN dLat
             ELSE IF dLat = 0 THEN dLon
             ELSE IF dLat < 32768 /\ dLon < 32768
             THEN ISqrt(dLat * dLat + dLon * dLon)
             ELSE 16 * ISqrt((dLat \div 16) * (dLat \div 16) + (dLon \div 16) * (dLon \div 16))
  IN (MicrometresPerUnit * arc) \div 1000

isWithinGeofenceStrict(currentLat, currentLon, targetLat, targetLon, radiusMeters) ==
  LET distance == calculateDistance(currentLat, currentLon, targetLat, targetLon)
  IN [within |-> distance < radiusMeters, distance |-> distance]

isWithinGeofence(currentLat, currentLon, targetLat, targetLon, radiusMeters) ==
  LET distance == calculateDistance(currentLat, currentLon, targetLat, targetLon)
  IN [within |-> distance <= radiusMeters, distance |-> distance]

----------------------------------------------------------------------------
(* Time window and freshness *)

isWithinTimeWindowExclusive(currentTimestamp, windowStart, windowEnd) ==
  currentTimestamp > windowStart /\ currentTimestamp < windowEnd

isWithinTimeWindow(currentTimestamp, windowStart, windowEnd) ==
  currentTimestamp >= windowStart /\ currentTimestamp <= windowEnd

isAttestationFreshNoFutureCheck(attestationTimestamp, maxAgeSec, clock) ==
  LET ageMs == clock - attestationTimestamp
  IN ageMs <= maxAgeSec * 1000

\* `clock` is the Date.now() the function reads
isAttestationFresh(attestationTimestamp, maxAgeSec, clock) ==
  LET ageMs == clock - attestationTimestamp
  IN ageMs >= 0 /\ ageMs <= maxAgeSec * 1000

----------------------------------------------------------------------------
(* Anti-spoofing checks *)

\* A speed in m/s is the exact quotient num / den of a distance in mm by a
\* time in ms, den > 0.
SpeedZero == [num |-> 0, den |-> 1]
SpeedGreater(s, t) == s.num * t.den > t.num * s.den
\* speed > maxSpeedMps, for a whole number of m/s
SpeedExceeds(s, maxSpeedMps) == s.num > maxSpeedMps * s.den
\* Math.max(s, t)
SpeedMax(s, t) == IF SpeedGreater(t, s) THEN t ELSE s
\* speed.toFixed(2), in hundredths of m/s
SpeedToFixed2(s) == (200 * s.num + s.den) \div (2 * s.den)

calculateSpeed(point1, point2) ==
  LET distance == calculateDistance(point1.lat, point1.lon, point2.lat, point2.lon)
      timeDeltaMs == point2.timestamp - point1.timestamp
  IN IF timeDeltaMs <= 0 THEN SpeedZero
     ELSE [num |-> distance, den |-> timeDeltaMs]

RECURSIVE InsertByTimestamp(_, _)
\* p goes after every element whose timestamp is not larger (a stable sort)
InsertByTimestamp(sorted, p) ==
  IF sorted = <<>> THEN <<p>>
  ELSE IF Head(sorted).timestamp <= p.timestamp
       THEN <<Head(sorted)>> \o InsertByTimestamp(Tail(sorted), p)
       ELSE <<p>> \o sorted

RECURSIVE SortFrom(_, _)
SortFrom(history, acc) ==
  IF history = <<>> THEN acc
  ELSE SortFrom(Tail(history), InsertByTimestamp(acc, Head(history)))

\* [...movementHistory].sort((a, b) => a.timestamp - b.timestamp)
SortByTimestamp(history) == SortFrom(history, <<>>)

\* a reason string: its template and the values interpolated into it
Reason(text, args) == [text |-> text, args |-> args]

InvalidSignatureText == "Invalid signature - attestation has been tampered with"
TooOldText == "Attestation too old (max age: ${maxAge}s)"
OutsideTimeWindowText == "Attestation timestamp outside allowed time window"
OutsideGeofenceText == "Location outside geofence: ${distance}m from target (max: ${radiusMeters}m)"
ImpossibleSpeedText == "Impossible speed detected: ${speed} m/s (max: ${maxSpeedMps} m/s)"
NoHistoryText == "No movement history provided"
InsufficientPresenceText == "Insufficient continuous presence: ${durationSec}s (required: ${requiredDurationSec}s)"

RECURSIVE PlausibilityLoop(_, _, _, _)
\* the for loop of checkMovementPlausibility from index i on
PlausibilityLoop(sorted, i, maxSpeed, maxSpeedMps) ==
  IF i > Len(sorted) THEN [plausible |-> TRUE, reason |-> None, maxSpeed |-> Some(maxSpeed)]
  ELSE LET speed == calculateSpeed(sorted[i - 1], sorted[i])
           m == SpeedMax(maxSpeed, speed)
       IN IF SpeedExceeds(speed, maxSpeedMps)
          THEN [plausible |-> FALSE,
                reason |-> Some(Reason(ImpossibleSpeedText,
                                       <<SpeedToFixed2(speed), maxSpeedMps>>)),
                maxSpeed |-> Some(m)]
          ELSE PlausibilityLoop(sorted, i + 1, m, maxSpeedMps)

\* movementHistory is the array itself (the caller passes a defined one)
checkMovementPlausibility(movementHistory, maxSpeedMps) ==
  IF Len(movementHistory) < 2
  THEN [plausible |-> TRUE, reason |-> None, maxSpeed |-> None]
  ELSE PlausibilityLoop(SortByTimestamp(movementHistory), 2, SpeedZero, maxSpeedMps)

RECURSIVE PresenceLoop(_, _, _, _, _, _, _)
\* the for loop of verifyContinuousPresence from index i on; its result is
\* the final windowDuration (ms)
PresenceLoop(sorted, i, windowStart, windowDuration, targetLat, targetLon, radiusMeters) ==
  IF i > Len(sorted) THEN windowDuration
  ELSE LET point == sorted[i]
           within == isWithinGeofence(point.lat, point.lon, targetLat, targetLon,
                                      radiusMeters).within
       IN IF within
          THEN LET ws == IF windowStart = -1 THEN point.timestamp ELSE windowStart
               IN PresenceLoop(sorted, i + 1, ws, point.timestamp - ws,
                               targetLat, targetLon, radiusMeters)
          ELSE PresenceLoop(sorted, i + 1, -1, 0, targetLat, targetLon, radiusMeters)

\* duration is carried in ms; durationSec.toFixed(1) in tenths of a second
verifyContinuousPresence(movementHistory, targetLat, targetLon, radiusMeters, requiredDurationSec) ==
  IF Len(movementHistory) = 0
  THEN [verified |-> FALSE, reason |-> Some(Reason(NoHistoryText, <<>>)),
        duration |-> None]
  ELSE LET windowDuration == PresenceLoop(SortByTimestamp(movementHistory), 1, -1, 0,
                                          targetLat, targetLon, radiusMeters)
       IN IF windowDuration >= requiredDurationSec * 1000
          THEN [verified |-> TRUE, reason |-> None, duration |-> Some(windowDuration)]
          ELSE [verified |-> FALSE,
                reason |-> Some(Reason(InsufficientPresenceText,
                                       <<(windowDuration + 50) \div 100, requiredDurationSec>>)),
                duration |-> Some(windowDuration)]

----------------------------------------------------------------------------
(* Full attestation verification *)

DefaultMaxAttestationAgeSec == 300
DefaultMaxSpeedMps == 200
DefaultContinuousPresenceDurationSec == 30

VerificationResult(valid, reason, attestation, distance) ==
  [valid |-> valid, reason |-> reason, attestation |-> attestation, distance |-> distance]

\* distance.toFixed(2), in centimetres
DistanceToFixed2(distance) == (distance + 5) \div 10

\* steps 5 and 6 and the final return, after the geofence check passed
verifyAfterGeofence(attestation, config, distance) ==
  LET history == attestation.movementHistory
      plausibility ==
        checkMovementPlausibility(Get(history), OrElse(config.maxSpeedMps, DefaultMaxSpeedMps))
      presence ==
        verifyContinuousPresence(Get(history), config.targetLat, config.targetLon,
                                 config.radiusMeters,
                                 OrElse(config.continuousPresenceDurationSec,
                                        DefaultContinuousPresenceDurationSec))
  IN IF IsSome(history) /\ Len(Get(history)) >= 2 /\ ~plausibility.plausible
     THEN VerificationResult(FALSE, plausibility.reason, Some(attestation), Some(distance))
     ELSE IF config.requireContinuousPresence /\ IsSome(history) /\ ~presence.verified
     THEN VerificationResult(FALSE, presence.reason, Some(attestation), Some(distance))
     ELSE VerificationResult(TRUE, None, Some(attestation), Some(distance))

\* steps 4 to 6, after the time-window check passed
verifyFromGeofence(attestation, config) ==
  LET fence == isWithinGeofence(attestation.latitude, attestation.longitude,
                                config.targetLat, config.targetLon, config.radiusMeters)
  IN IF ~fence.within
     THEN VerificationResult(FALSE,
            Some(Reason(OutsideGeofenceText,
                        <<DistanceToFixed2(fence.distance), config.radiusMeters>>)),
            Some(attestation), Some(fence.distance))
     ELSE verifyAfterGeofence(attestation, config, fence.distance)

\* the mutant of the pipeline that computes the distance before the time
\* window is checked and reports it with a time-window failure
verifyLocationAttestationEagerDistance(attestation, config, clock) ==
  LET maxAge == OrElse(config.maxAttestationAgeSec, DefaultMaxAttestationAgeSec)
      fence == isWithinGeofence(attestation.latitude, attestation.longitude,
                                config.targetLat, config.targetLon, config.radiusMeters)
  IN IF ~verifyAttestationSignature(attestation)
     THEN VerificationResult(FALSE,
            Some(Reason(InvalidSignatureText, <<>>)),
            None, None)
     ELSE IF ~isAttestationFresh(attestation.timestamp, maxAge, clock)
     THEN VerificationResult(FALSE,
            Some(Reason(TooOldText, <<maxAge>>)),
            Some(attestation), None)
     ELSE IF ~isWithinTimeWindow(attestation.timestamp, config.windowStart, config.windowEnd)
     THEN VerificationResult(FALSE,
            Some(Reason(OutsideTimeWindowText, <<>>)),
            Some(attestation), Some(fence.distance))
     ELSE verifyFromGeofence(attestation, config)

\* the mutant of the pipeline that looks at the geofence before the signature
verifyLocationAttestationGeofenceFirst(attestation, config, clock) ==
  LET fence == isWithinGeofence(attestation.latitude, attestation.longitude,
                                config.targetLat, config.targetLon, config.radiusMeters)
  IN IF ~fence.within THEN verifyFromGeofence(attestation, config)
     ELSE IF ~verifyAttestationSignature(attestation)
     THEN VerificationResult(FALSE,
            Some(Reason(InvalidSignatureText, <<>>)),
            None, None)
     ELSE verifyFromGeofence(attestation, config)

\* `clock` is the Date.now() that isAttestationFresh reads during the call
verifyLocationAttestation(attestation, config, clock) ==
  LET maxAge == OrElse(config.maxAttestationAgeSec, DefaultMaxAttestationAgeSec)
  IN IF ~verifyAttestationSignature(attestation)
     THEN VerificationResult(FALSE,
            Some(Reason(InvalidSignatureText, <<>>)),
            None, None)
     ELSE IF ~isAttestationFresh(attestation.timestamp, maxAge, clock)
     THEN VerificationResult(FALSE,
            Some(Reason(TooOldText, <<maxAge>>)),
            Some(attestation), None)
     ELSE IF ~isWithinTimeWindow(attestation.timestamp, config.windowStart, config.windowEnd)
     THEN VerificationResult(FALSE,
            Some(Reason(OutsideTimeWindowText, <<>>)),
            Some(attestation), None)
     ELSE verifyFromGeofence(attestation, config)

\* the call throws when tweetnacl rejects the signature's size
verifyLocationAttestationThrows(attestation) ==
  verifySignatureThrows(attestation.signature)

----------------------------------------------------------------------------
(* Strings and bytes *)

\* A JavaScript string is either text, [units |-> <<UTF-16 code units>>], or
\* the base64 text of a byte string, [b64 |-> bytes].
Text(units) == [units |-> units]
IsBase64(str) == "b64" \in DOMAIN str

\* util.encodeBase64 / Buffer.toString('base64')
encodeBase64(bytes) == [b64 |-> bytes]
\* util.decodeBase64 throws on a string that is not base64
decodeBase64Throws(str) == ~IsBase64(str)
decodeBase64(str) == str.b64

\* UTF-16 code units of the model: a BMP letter, a high and a low surrogate,
\* and the replacement character
HighSurrogate == "D83D"
LowSurrogate == "DE00"
Replacement == "FFFD"

RECURSIVE ScalarValues(_)
\* the Unicode scalar values TextEncoder.encode writes as UTF-8: a surrogate
\* pair is one scalar value, an unpaired surrogate becomes U+FFFD
ScalarValues(units) ==
  IF units = <<>> THEN <<>>
  ELSE IF Head(units) = HighSurrogate /\ Len(units) >= 2 /\ units[2] = LowSurrogate
       THEN <<"1F600">> \o ScalarValues(Tail(Tail(units)))
  ELSE IF Head(units) \in {HighSurrogate, LowSurrogate}
       THEN <<Replacement>> \o ScalarValues(Tail(units))
  ELSE <<Head(units)>> \o ScalarValues(Tail(units))

RECURSIVE CodeUnits(_)
\* the UTF-16 code units TextDecoder.decode yields for scalar values
CodeUnits(scalars) ==
  IF scalars = <<>> THEN <<>>
  ELSE IF Head(scalars) = "1F600"
       THEN <<HighSurrogate, LowSurrogate>> \o CodeUnits(Tail(scalars))
  ELSE <<Head(scalars)>> \o CodeUnits(Tail(scalars))

\* new TextEncoder().encode(str): base64 text is ASCII
textEncode(str) ==
  IF IsBase64(str) THEN [ascii |-> str.b64] ELSE [utf8 |-> ScalarValues(str.units)]

\* mutant: a decoder that takes every scalar value for one code unit
textDecodeOneUnitEach(bytes) ==
  IF "ascii" \in DOMAIN bytes THEN [b64 |-> bytes.ascii]
  ELSE [units |-> bytes.utf8]

\* new TextDecoder().decode(bytes)
textDecode(bytes) ==
  IF "ascii" \in DOMAIN bytes THEN [b64 |-> bytes.ascii]
  ELSE [units |-> CodeUnits(bytes.utf8)]

----------------------------------------------------------------------------
(* X25519 (tweetnacl box) *)

\* nacl.box.keyPair(): key pair i
boxPublicKey(i) == [xpk |-> i]
boxSecretKey(i) == [xsk |-> i]

\* nacl.box.before(theirPublicKey, mySecretKey): the same for (pk i, sk j)
\* and (pk j, sk i)
boxBefore(theirPubKey, mySecretKey) ==
  IF "xpk" \in DOMAIN theirPubKey /\ "xsk" \in DOMAIN mySecretKey
  THEN [shared |-> {theirPubKey.xpk, mySecretKey.xsk}]
  ELSE [sharedOf |-> <<theirPubKey, mySecretKey>>]

generateX25519KeyPair(i) ==
  [publicKey |-> encodeBase64(boxPublicKey(i)), privateKey |-> encodeBase64(boxSecretKey(i))]

computeSharedSecretThrows(myPrivateKey, theirPublicKey) ==
  decodeBase64Throws(myPrivateKey) \/ decodeBase64Throws(theirPublicKey)

computeSharedSecret(myPrivateKey, theirPublicKey) ==
  encodeBase64(boxBefore(decodeBase64(theirPublicKey), decodeBase64(myPrivateKey)))

----------------------------------------------------------------------------
(* HKDF *)

HashLen == 32
MaxHkdfBlocks == 255
KeyLength == 32
Salt == "LocationBoundMessaging-v1"

\* HMAC-SHA256(key, data): one 32-byte block
hmac(key, data) == [hmac |-> <<key, data>>]

hkdfExtract(salt, ikm) == hmac(salt, ikm)

\* Math.ceil(length / hashLen)
BlocksFor(length) == (length + HashLen - 1) \div HashLen

hkdfExpandThrows(length) == BlocksFor(length) > MaxHkdfBlocks

\* a 32-byte digest fed into a further HMAC is named by what it is the HMAC
\* of; the digest that is block i of the chain of (prk, info), fed with the
\* name of block i - 1, is named by its place in the chain
IsChainBlock(block) ==
  LET data == block.hmac[2]
  IN /\ Len(data) = 3
     /\ \/ data[3] = 1 /\ data[1] = None
        \/ data[3] > 1 /\ data[1] = Some([chain |-> <<block.hmac[1], data[2], data[3] - 1>>])

Digest(t) ==
  IF t = None THEN None
  ELSE IF IsChainBlock(Get(t))
  THEN Some([chain |-> <<Get(t).hmac[1], Get(t).hmac[2][2], Get(t).hmac[2][3]>>])
  ELSE t

\* one pass of the body of hkdfExpand's for loop: s.t is T(i - 1), s.okm the
\* blocks so far
ExpandStep(prk, info, i, s) ==
  LET ti == hmac(prk, <<Digest(s.t), info, i>>)
  IN [t |-> Some(ti), okm |-> Append(s.okm, ti)]

RECURSIVE ExpandLoop(_, _, _, _, _)
\* the passes lo..hi of the for loop, in order: those of the lower half and
\* then, from the state they leave, those of the upper half; s.okm holds
\* lo - 1 blocks on entry and hi blocks on exit
ExpandLoop(prk, info, lo, hi, s) ==
  IF lo > hi \/ Len(s.okm) >= hi THEN s
  ELSE IF lo = hi THEN ExpandStep(prk, info, lo, s)
  ELSE ExpandLoop(prk, info, (lo + hi) \div 2 + 1, hi,
                  ExpandLoop(prk, info, lo, (lo + hi) \div 2, s))

\* let t = Buffer.alloc(0); let okm = Buffer.alloc(0)
ExpandStart == [t |-> None, okm |-> <<>>]

\* the byte count of buf.slice(0, end) for a buffer of `total` bytes
SliceLength(total, end) ==
  IF end >= 0 THEN (IF end < total THEN end ELSE total)
  ELSE (IF total + end > 0 THEN total + end ELSE 0)

\* mutant: an expansion that returns whole blocks, without the slice
hkdfExpandWholeBlocks(prk, info, length) ==
  LET okm == ExpandLoop(prk, info, 1, BlocksFor(length), ExpandStart).okm
  IN [blocks |-> okm, len |-> HashLen * Len(okm)]

\* okm.slice(0, length): the first `length` bytes of the blocks
hkdfExpand(prk, info, length) ==
  LET okm == ExpandLoop(prk, info, 1, BlocksFor(length), ExpandStart).okm
  IN [blocks |-> okm, len |-> SliceLength(HashLen * Len(okm), length)]

\* Buffer.from(str, 'base64') never throws: of a string that is not base64 it
\* decodes the base64 characters it finds
bufferFromBase64(str) == IF IsBase64(str) THEN str.b64 ELSE [lenient |-> str.units]

\* backend: Buffer.from(ikm, 'base64'); salt and info are UTF-8
hkdf(ikm, salt, info, length) ==
  hkdfExpand(hkdfExtract(salt, bufferFromBase64(ikm)), info, length)

\* browser: crypto.subtle HMAC with SHA-256, the same function
hmacBrowser(key, data) == [hmac |-> <<key, data>>]

hkdfExtractBrowser(salt, ikm) == hmacBrowser(salt, ikm)

\* one pass of the browser's loop: input is t, info and the byte i
ExpandStepBrowser(prk, info, i, s) ==
  LET input == <<Digest(s.t), info, i>>
      ti == hmacBrowser(prk, input)
  IN [t |-> Some(ti), okm |-> Append(s.okm, ti)]

RECURSIVE ExpandLoopBrowser(_, _, _, _, _)
\* the passes lo..hi of the browser's for loop, in order
ExpandLoopBrowser(prk, info, lo, hi, s) ==
  IF lo > hi \/ Len(s.okm) >= hi THEN s
  ELSE IF lo = hi THEN ExpandStepBrowser(prk, info, lo, s)
  ELSE ExpandLoopBrowser(prk, info, (lo + hi) \div 2 + 1, hi,
                         ExpandLoopBrowser(prk, info, lo, (lo + hi) \div 2, s))

\* the browser's own `if (n > 255) throw`
hkdfExpandBrowserThrows(length) == BlocksFor(length) > MaxHkdfBlocks

hkdfExpandBrowser(prk, info, length) ==
  LET okm == ExpandLoopBrowser(prk, info, 1, BlocksFor(length), ExpandStart).okm
  IN [blocks |-> okm, len |-> SliceLength(HashLen * Len(okm), length)]

\* browser: util.decodeBase64(ikm) throws on a string that is not base64
hkdfBrowserThrows(ikm, length) ==
  decodeBase64Throws(ikm) \/ hkdfExpandBrowserThrows(length)

hkdfBrowser(ikm, salt, info, length) ==
  hkdfExpandBrowser(hkdfExtractBrowser(salt, decodeBase64(ikm)), info, length)

\* mutant: coordinates formatted with toFixed(5)
locationInfoFiveDecimals(lat, lon, radiusMeters, windowStart, windowEnd, nonce) ==
  [lat |-> [neg |-> lat < 0, micro |-> (Abs(lat) + 50) \div 100],
   lon |-> [neg |-> lon < 0, micro |-> (Abs(lon) + 50) \div 100],
   radius |-> radiusMeters, start |-> windowStart, end |-> windowEnd, nonce |-> nonce]

\* JSON.stringify of the location context: coordinates as 6-decimal strings
locationInfo(lat, lon, radiusMeters, windowStart, windowEnd, nonce) ==
  [lat |-> toFixed6(lat), lon |-> toFixed6(lon), radius |-> radiusMeters,
   start |-> windowStart, end |-> windowEnd, nonce |-> nonce]

\* backend crypto module
deriveLocationBoundKey(sharedSecret, lat, lon, radiusMeters, windowStart, windowEnd, nonce) ==
  hkdf(sharedSecret, Salt,
       locationInfo(lat, lon, radiusMeters, windowStart, windowEnd, nonce), KeyLength)

\* mutant: a browser derivation that leaves the nonce out of the context
deriveLocationBoundKeyBrowserNoNonce(sharedSecret, lat, lon, radiusMeters, windowStart, windowEnd, nonce) ==
  hkdfBrowser(sharedSecret, Salt,
       [lat |-> toFixed6(lat), lon |-> toFixed6(lon), radius |-> radiusMeters,
        start |-> windowStart, end |-> windowEnd], KeyLength)

\* browser crypto module
deriveLocationBoundKeyBrowser(sharedSecret, lat, lon, radiusMeters, windowStart, windowEnd, nonce) ==
  hkdfBrowser(sharedSecret, Salt,
       [lat |-> toFixed6(lat), lon |-> toFixed6(lon), radius |-> radiusMeters,
        start |-> windowStart, end |-> windowEnd, nonce |-> nonce], KeyLength)

----------------------------------------------------------------------------
(* AES-256-GCM *)

\* the ciphertext and the 128-bit tag of `plain` under (key, iv)
AesCiphertext(key, iv, plain) == [aes |-> <<key, iv, plain>>]
AesTag(key, iv, plain) == [tag |-> <<key, iv, plain>>]

\* decryption authenticates: the tag must be the one made under this key and
\* iv for this ciphertext
AesAuthentic(ciphertextBytes, key, iv, tagBytes) ==
  /\ "aes" \in DOMAIN ciphertextBytes
  /\ ciphertextBytes.aes[1] = key
  /\ ciphertextBytes.aes[2] = iv
  /\ tagBytes = AesTag(key, iv, ciphertextBytes.aes[3])

\* browser aesGcmEncrypt; `iv` is the crypto.getRandomValues nonce
aesGcmEncryptBrowser(plaintext, key, iv) ==
  LET encodedText == textEncode(plaintext)
  IN [ciphertext |-> encodeBase64(AesCiphertext(key, iv, encodedText)),
      nonce |-> encodeBase64(iv),
      authTag |-> encodeBase64(AesTag(key, iv, encodedText))]

\* mutant: a decryption that does not verify the tag
aesGcmDecryptBrowserUnauthenticated(ciphertext, key, nonce, authTag) ==
  decodeBase64Throws(ciphertext) \/ decodeBase64Throws(nonce) \/ decodeBase64Throws(authTag)

\* crypto.subtle.decrypt rejects (OperationError) when the tag does not verify
aesGcmDecryptBrowserThrows(ciphertext, key, nonce, authTag) ==
  \/ decodeBase64Throws(ciphertext) \/ decodeBase64Throws(nonce) \/ decodeBase64Throws(authTag)
  \/ ~AesAuthentic(decodeBase64(ciphertext), key, decodeBase64(nonce), decodeBase64(authTag))

aesGcmDecryptBrowser(ciphertext, key, nonce, authTag) ==
  textDecode(decodeBase64(ciphertext).aes[3])

wrapKeyBrowser(keyToWrap, wrappingKey, iv) ==
  LET sealed == aesGcmEncryptBrowser(encodeBase64(keyToWrap), wrappingKey, iv)
  IN [wrappedKey |-> sealed.ciphertext, nonce |-> sealed.nonce, authTag |-> sealed.authTag]

unwrapKeyBrowserThrows(wrappedKey, wrappingKey, nonce, authTag) ==
  \/ aesGcmDecryptBrowserThrows(wrappedKey, wrappingKey, nonce, authTag)
  \/ decodeBase64Throws(aesGcmDecryptBrowser(wrappedKey, wrappingKey, nonce, authTag))

unwrapKeyBrowser(wrappedKey, wrappingKey, nonce, authTag) ==
  decodeBase64(aesGcmDecryptBrowser(wrappedKey, wrappingKey, nonce, authTag))

----------------------------------------------------------------------------
(* The message store and its HTTP handlers (backend server) *)

\* a JSON object is a record: a field it lacks is outside its DOMAIN
Has(obj, field) == field \in DOMAIN obj

\* messages.set(key, value) and messages.delete(key) on the Map
Put(store, key, value) ==
  [k \in DOMAIN store \cup {key} |-> IF k = key THEN value ELSE store[k]]
Remove(store, key) == [k \in DOMAIN store \ {key} |-> store[k]]

\* what a handler does: the status and JSON body it sends, and the Map after
Reply(status, body, store) == [status |-> status, body |-> body, store |-> store]

InternalError == [error |-> "Internal server error"]
NotFound == [error |-> "Message not found"]
Gone == [error |-> "Message expired"]

\* app.post('/api/messages'): the message is stored before metadata is read
postMessage(store, message) ==
  IF ~Has(message, "id") \/ ~Has(message, "encryptedPayload") \/ ~Has(message, "wrappedKey")
  THEN Reply(400, [error |-> "Invalid message format"], store)
  ELSE IF ~Has(message, "locationBinding")
  THEN Reply(400, [error |-> "Missing location binding"], store)
  ELSE IF ~Has(message, "metadata")
  THEN Reply(500, InternalError, Put(store, message.id, message))
  ELSE Reply(200,
             [success |-> TRUE, messageId |-> message.id]
               @@ (IF Has(message.metadata, "expiresAt")
                   THEN [expiresAt |-> message.metadata.expiresAt] ELSE <<>>),
             Put(store, message.id, message))

\* message.metadata.expiresAt && Date.now() > message.metadata.expiresAt
isExpired(message, clock) ==
  /\ Has(message.metadata, "expiresAt")
  /\ message.metadata.expiresAt # 0
  /\ clock > message.metadata.expiresAt

UnlockMaxAttestationAgeSec == 300

\* the VerificationConfig the unlock handler builds from the stored binding
unlockConfig(message) ==
  [targetLat |-> message.locationBinding.latitude,
   targetLon |-> message.locationBinding.longitude,
   radiusMeters |-> message.locationBinding.radiusMeters,
   windowStart |-> message.locationBinding.windowStart,
   windowEnd |-> message.locationBinding.windowEnd,
   maxAttestationAgeSec |-> Some(UnlockMaxAttestationAgeSec),
   requireContinuousPresence |-> FALSE,
   continuousPresenceDurationSec |-> None,
   maxSpeedMps |-> None]

\* mutant: a denial that also carries the wrapped key
unlockDenialWithKey(message, verification) ==
  [unlocked |-> FALSE, reason |-> Get(verification.reason),
   wrappedKey |-> message.wrappedKey]

\* the 403 body; JSON.stringify leaves an undefined distance out
unlockDenial(message, verification) ==
  [unlocked |-> FALSE, reason |-> Get(verification.reason)]
    @@ (IF IsSome(verification.distance)
        THEN [distance |-> Get(verification.distance)] ELSE <<>>)

\* the 200 body
unlockGrant(message, verification) ==
  [unlocked |-> TRUE,
   wrappedKey |-> message.wrappedKey,
   wrappedKeyNonce |-> message.wrappedKeyNonce,
   wrappedKeyAuthTag |-> message.wrappedKeyAuthTag,
   distance |-> Get(verification.distance)]

\* app.post('/api/messages/:id/unlock'); unlockReq.attestation is None when
\* the body has no attestation
unlockMessage(store, id, unlockReq, clock) ==
  IF id \notin DOMAIN store THEN Reply(404, NotFound, store)
  ELSE LET message == store[id]
       IN IF ~Has(message, "metadata") THEN Reply(500, InternalError, store)
          ELSE IF isExpired(message, clock) THEN Reply(410, Gone, Remove(store, id))
          ELSE IF \/ ~IsSome(unlockReq.attestation)
                  \/ verifyLocationAttestationThrows(Get(unlockReq.attestation))
          THEN Reply(500, InternalError, store)
          ELSE LET verification ==
                     verifyLocationAttestation(Get(unlockReq.attestation),
                                               unlockConfig(message), clock)
               IN IF ~verification.valid
                  THEN Reply(403, unlockDenial(message, verification), store)
                  ELSE Reply(200, unlockGrant(message, verification), store)

\* an answer put together after the message lost its wrapped key; defined
\* for comparison
getEncryptedPartial(store, id, clock) ==
  IF id \notin DOMAIN store THEN Reply(404, NotFound, store)
  ELSE IF ~Has(store[id], "metadata") THEN Reply(500, None, store)
  ELSE IF isExpired(store[id], clock) THEN Reply(410, Gone, Remove(store, id))
  ELSE Reply(200, [f \in DOMAIN store[id] \ {"wrappedKey"} |-> store[id][f]], store)

\* app.get('/api/messages/:id/encrypted'); a stored message without metadata
\* makes the handler throw, which Express answers with its own 500 page
getEncrypted(store, id, clock) ==
  IF id \notin DOMAIN store THEN Reply(404, NotFound, store)
  ELSE IF ~Has(store[id], "metadata") THEN Reply(500, None, store)
  ELSE IF isExpired(store[id], clock) THEN Reply(410, Gone, Remove(store, id))
  ELSE Reply(200, store[id], store)

\* app.get('/api/messages/:id'): the public fields of the stored message
getMessage(store, id, clock) ==
  IF id \notin DOMAIN store THEN Reply(404, NotFound, store)
  ELSE IF ~Has(store[id], "metadata") THEN Reply(500, None, store)
  ELSE IF isExpired(store[id], clock) THEN Reply(410, Gone, Remove(store, id))
  ELSE Reply(200,
             [f \in DOMAIN store[id] \cap {"id", "locationBinding", "metadata",
                                           "senderPublicKey", "recipientPublicKey"}
                |-> store[id][f]],
             store)

\* app.delete('/api/messages/:id')
deleteMessage(store, id) ==
  IF id \in DOMAIN store THEN Reply(200, [success |-> TRUE], Remove(store, id))
  ELSE Reply(404, NotFound, store)

\* `${Math.abs(lat).toFixed(6)}°${latDir}, ${Math.abs(lon).toFixed(6)}°${lonDir}`
formatCoordinates(lat, lon) ==
  [lat |-> toFixed6(Abs(lat)).micro, latDir |-> IF lat >= 0 THEN "N" ELSE "S",
   lon |-> toFixed6(Abs(lon)).micro, lonDir |-> IF lon >= 0 THEN "E" ELSE "W"]

\* one element of messageList; JSON leaves an undefined title or expiresAt out
listEntry(msg) ==
  [id |-> msg.id,
   location |-> formatCoordinates(msg.locationBinding.latitude,
                                  msg.locationBinding.longitude),
   radius |-> msg.locationBinding.radiusMeters]
    @@ [f \in DOMAIN msg.metadata \cap {"title", "created", "expiresAt"}
          |-> msg.metadata[f]]

\* a listing that leaves out what GET /api/messages/:id would answer as
\* expired; defined for comparison
listMessagesUnexpired(store, clock) ==
  IF \E id \in DOMAIN store : ~Has(store[id], "metadata") THEN Reply(500, None, store)
  ELSE Reply(200,
             [messages |-> { listEntry(store[id]) :
                             id \in { i \in DOMAIN store : ~isExpired(store[i], clock) } },
              count |-> Cardinality({ i \in DOMAIN store : ~isExpired(store[i], clock) })],
             store)

\* app.get('/api/messages'): every value of the Map, in a body whose
\* `messages` array is given here as the set of its elements; msg.metadata.title
\* of a stored message without metadata makes the handler throw, which
\* Express answers with its own 500 page
listMessages(store, clock) ==
  IF \E id \in DOMAIN store : ~Has(store[id], "metadata") THEN Reply(500, None, store)
  ELSE Reply(200,
             [messages |-> { listEntry(store[id]) : id \in DOMAIN store },
              count |-> Cardinality(DOMAIN store)],
             store)

----------------------------------------------------------------------------
(* The compose and viewer pages (frontend) *)

HourMs == 3600000

\* the values handleEncrypt draws at random: the ephemeral sender key pair,
\* the content key, the two AES-GCM nonces, the key nonce, the id's suffix
SenderKey == 1
MessageKey == [key |-> "K_msg"]
PayloadIv == [iv |-> "payload"]
WrapIv == [iv |-> "wrap"]
KeyNonce == encodeBase64([nonce |-> "n1"])

\* handleEncrypt up to the fetch: the storedMessage it builds at `clock`
storedMessage(message, title, coordinates, radius, windowHours, recipientPublicKey, clock) ==
  LET senderKeys == generateX25519KeyPair(SenderKey)
      sharedSecret == computeSharedSecret(senderKeys.privateKey, recipientPublicKey)
      payload == aesGcmEncryptBrowser(message, MessageKey, PayloadIv)
      windowStart == clock
      windowEnd == clock + windowHours * HourMs
      locationBoundKey ==
        deriveLocationBoundKeyBrowser(sharedSecret, coordinates.lat, coordinates.lon,
                                      radius, windowStart, windowEnd, KeyNonce)
      wrapped == wrapKeyBrowser(MessageKey, locationBoundKey, WrapIv)
  IN [id |-> "msg-" \o ToString(clock) \o "-r",
      senderPublicKey |-> senderKeys.publicKey,
      recipientPublicKey |-> recipientPublicKey,
      encryptedPayload |-> payload.ciphertext,
      payloadNonce |-> payload.nonce,
      payloadAuthTag |-> payload.authTag,
      wrappedKey |-> wrapped.wrappedKey,
      wrappedKeyNonce |-> wrapped.nonce,
      wrappedKeyAuthTag |-> wrapped.authTag,
      locationBinding |->
        [latitude |-> coordinates.lat, longitude |-> coordinates.lon,
         radiusMeters |-> radius, windowStart |-> windowStart,
         windowEnd |-> windowEnd, nonce |-> KeyNonce],
      metadata |->
        [title |-> IF title = "" THEN "Untitled Message" ELSE title,
         created |-> clock, expiresAt |-> windowEnd]]

\* what handleUnlock leaves in the viewer's state: `stage` is the step it
\* stopped at
UnlockOutcome(stage, decrypted, error) ==
  [stage |-> stage, decrypted |-> decrypted, error |-> error]

TooFar(distance, radiusMeters) ==
  [text |-> "Too far from target", distance |-> distance, max |-> radiusMeters]
DecryptionFailed(cause) == [text |-> "Decryption failed", cause |-> cause]

\* handleUnlock from "Compute shared secret" on, after the distance check
handleUnlockAfterDistance(message, recipientPrivateKey) ==
  LET binding == message.locationBinding
      sharedSecret == computeSharedSecret(recipientPrivateKey, message.senderPublicKey)
      locationBoundKey ==
        deriveLocationBoundKeyBrowser(sharedSecret, binding.latitude, binding.longitude,
                                      binding.radiusMeters, binding.windowStart,
                                      binding.windowEnd, binding.nonce)
      messageKey ==
        unwrapKeyBrowser(message.wrappedKey, locationBoundKey,
                         message.wrappedKeyNonce, message.wrappedKeyAuthTag)
  IN IF computeSharedSecretThrows(recipientPrivateKey, message.senderPublicKey)
     THEN UnlockOutcome("secret", None, Some(DecryptionFailed("invalid encoding")))
     ELSE IF aesGcmDecryptBrowserThrows(message.wrappedKey, locationBoundKey,
                                        message.wrappedKeyNonce, message.wrappedKeyAuthTag)
     THEN UnlockOutcome("unwrap", None, Some(DecryptionFailed("OperationError")))
     ELSE IF unwrapKeyBrowserThrows(message.wrappedKey, locationBoundKey,
                                    message.wrappedKeyNonce, message.wrappedKeyAuthTag)
     THEN UnlockOutcome("unwrap", None, Some(DecryptionFailed("invalid encoding")))
     ELSE IF aesGcmDecryptBrowserThrows(message.encryptedPayload, messageKey,
                                        message.payloadNonce, message.payloadAuthTag)
     THEN UnlockOutcome("decrypt", None, Some(DecryptionFailed("OperationError")))
     ELSE UnlockOutcome("done",
            Some(aesGcmDecryptBrowser(message.encryptedPayload, messageKey,
                                      message.payloadNonce, message.payloadAuthTag)),
            None)

\* mutant: an unlock that goes on to decrypt whatever the distance
handleUnlockIgnoringDistance(message, recipientPrivateKey, userLat, userLon) ==
  IF ~Has(message, "locationBinding")
  THEN UnlockOutcome("distance", None, Some(DecryptionFailed("TypeError")))
  ELSE handleUnlockAfterDistance(message, recipientPrivateKey)

\* handleUnlock after its guard, on the fetched message
handleUnlock(message, recipientPrivateKey, userLat, userLon) ==
  IF ~Has(message, "locationBinding")
  THEN UnlockOutcome("distance", None, Some(DecryptionFailed("TypeError")))
  ELSE
  LET binding == message.locationBinding
      distance == calculateDistance(userLat, userLon, binding.latitude, binding.longitude)
  IN IF distance > binding.radiusMeters
     THEN UnlockOutcome("distance", None, Some(TooFar(distance, binding.radiusMeters)))
     ELSE handleUnlockAfterDistance(message, recipientPrivateKey)

----------------------------------------------------------------------------
(* The values the model draws its inputs from *)

DeviceIds == {"device-1"}
\* Ed25519 key pairs: the device's and another party's
DeviceKey == 1
OtherKey == 2
Accuracies == {5}

\* the geofence target of every binding of the attestation model
TargetLat == 0
TargetLon == 0
\* 100.004 m, the distance of latitude 8994 from the target
RadiusMm == 100004
\* latitudes a device claims: at exactly the radius, just outside it
Lats == {8994, 8995}
Lons == {0}
\* a longitude an attestation is altered to
OtherLon == 3
\* 1000.04 m north of the target
FarLat == 89940

\* the device's clock minus the verifier's
ClockSkews == {-1, 0, 1}
\* the instants the verifier's clock is observed at, in ms after T0: one
\* millisecond and the default maximum age, and one millisecond more
ClockOffsets == {0, 1, 300000, 300001}

\* samples of a movement history: two at the target 1 s apart, and one
\* 1000 m away at the instant of the later of them
HistoryPoints ==
  { [lat |-> 0, lon |-> 0, timestamp |-> T0 - 1000],
    [lat |-> 0, lon |-> 0, timestamp |-> T0],
    [lat |-> FarLat, lon |-> 0, timestamp |-> T0] }

\* context.movementHistory: absent, or an array of at most MaxHist points
Histories ==
  {None} \cup { Some(h) : h \in UNION { [1..n -> HistoryPoints] : n \in 0..MaxHist } }

\* continuous presence is not required, or required for the default 30 s,
\* or required for 1 s
PresenceOptions ==
  { [require |-> FALSE, durationSec |-> None],
    [require |-> TRUE, durationSec |-> None],
    [require |-> TRUE, durationSec |-> Some(1)] }

Configs ==
  { [targetLat |-> TargetLat, targetLon |-> TargetLon, radiusMeters |-> RadiusMm,
     windowStart |-> T0, windowEnd |-> T0 + 1,
     maxAttestationAgeSec |-> age,
     requireContinuousPresence |-> p.require,
     continuousPresenceDurationSec |-> p.durationSec,
     maxSpeedMps |-> None]
    : age \in {None, Some(0)}, p \in PresenceOptions }

----------------------------------------------------------------------------
(* The state machine of one verifier and the attestations sent to it *)

IdleKdf == [phase |-> "idle"]
IdleCompose == [step |-> "compose"]
IdleViewer == [loading |-> TRUE]
\* const peers = new Set(); const connectedPeers = new Map(); no connection yet
IdleRelay == [peers |-> {}, connectedPeers |-> <<>>, peerId |-> <<>>]

InitVerify ==
  /\ now = T0
  /\ att = None
  /\ cfg \in Configs
  /\ result = None
  /\ messages = <<>>
  /\ response = None
  /\ kdf = IdleKdf
  /\ compose = IdleCompose
  /\ viewer = IdleViewer
  /\ relay = IdleRelay

\* time passes on the verifier
Tick ==
  /\ \E d \in ClockOffsets :
       /\ T0 + d > now
       /\ now' = T0 + d
  /\ result' = None
  /\ response' = None
  /\ UNCHANGED <<att, cfg, messages, kdf, compose, viewer, relay>>

\* a device starts an unlock attempt: it signs the position it claims
CreateAttestation ==
  /\ att = None
  /\ \E id \in DeviceIds, lat \in Lats, lon \in Lons, acc \in Accuracies,
        h \in Histories, skew \in ClockSkews :
       att' = Some(createLocationAttestation(id, privateKeyOf(DeviceKey),
                     publicKeyOf(DeviceKey), lat, lon, acc, h, now + skew))
  /\ result' = None
  /\ response' = None
  /\ UNCHANGED <<now, cfg, messages, kdf, compose, viewer, relay>>

Authentic(a) == ~verifySignatureThrows(a.signature) /\ verifyAttestationSignature(a)

\* somebody between the device and the verifier alters one field of an
\* attestation that still carries the device's signature
AlterAttestation ==
  /\ IsSome(att)
  /\ Authentic(Get(att))
  /\ \/ \E lat \in Lats : att' = Some([Get(att) EXCEPT !.latitude = lat])
     \/ att' = Some([Get(att) EXCEPT !.longitude = OtherLon])
     \/ att' = Some([Get(att) EXCEPT !.timestamp = T0])
     \/ \E h \in Histories : att' = Some([Get(att) EXCEPT !.movementHistory = h])
     \/ att' = Some([Get(att) EXCEPT !.devicePublicKey = publicKeyOf(OtherKey)])
     \/ att' = Some([Get(att) EXCEPT !.signature.size = SignatureBytes - 1])
  /\ result' = None
  /\ response' = None
  /\ UNCHANGED <<now, cfg, messages, kdf, compose, viewer, relay>>

\* what a caller of verifyLocationAttestation gets: the call, and either the
\* VerificationResult or the exception
Verification(attestation, config, clock) ==
  [attestation |-> attestation, config |-> config, at |-> clock,
   threw |-> verifyLocationAttestationThrows(attestation),
   value |-> IF verifyLocationAttestationThrows(attestation) THEN None
             ELSE Some(verifyLocationAttestation(attestation, config, clock))]

\* the verifier runs the pipeline on the attestation it received
Verify ==
  /\ IsSome(att)
  /\ result' = Some(Verification(Get(att), cfg, now))
  /\ att' = None
  /\ UNCHANGED <<now, cfg, messages, response, kdf, compose, viewer, relay>>

NextVerify == Tick \/ CreateAttestation \/ AlterAttestation \/ Verify

VerifySpec == InitVerify /\ [][NextVerify]_vars

----------------------------------------------------------------------------
(* Properties of the verification pipeline (VerifySpec) *)

\* a call of verifyLocationAttestation has returned a VerificationResult
Returned == IsSome(result) /\ ~Get(result).threw
CallAtt == Get(result).attestation
CallCfg == Get(result).config
CallAt == Get(result).at
CallValue == Get(Get(result).value)
ReasonText == IF IsSome(CallValue.reason) THEN Get(CallValue.reason).text ELSE ""

MaxAgeMsOf(config) == OrElse(config.maxAttestationAgeSec, DefaultMaxAttestationAgeSec) * 1000
AgeOk(a, config, clock) ==
  clock - a.timestamp >= 0 /\ clock - a.timestamp <= MaxAgeMsOf(config)
InWindow(a, config) ==
  config.windowStart <= a.timestamp /\ a.timestamp <= config.windowEnd
DistanceToTarget(a, config) ==
  calculateDistance(a.latitude, a.longitude, config.targetLat, config.targetLon)

\* The six checks in their declared order, each as the pipeline stage applies it
CheckFails(i, a, config, clock) ==
  CASE i = 1 -> ~verifyAttestationSignature(a)
    [] i = 2 -> ~isAttestationFresh(a.timestamp,
                   OrElse(config.maxAttestationAgeSec, DefaultMaxAttestationAgeSec), clock)
    [] i = 3 -> ~isWithinTimeWindow(a.timestamp, config.windowStart, config.windowEnd)
    [] i = 4 -> ~isWithinGeofence(a.latitude, a.longitude, config.targetLat,
                                  config.targetLon, config.radiusMeters).within
    [] i = 5 -> /\ IsSome(a.movementHistory)
                /\ Len(Get(a.movementHistory)) >= 2
                /\ ~checkMovementPlausibility(Get(a.movementHistory),
                       OrElse(config.maxSpeedMps, DefaultMaxSpeedMps)).plausible
    [] i = 6 -> /\ config.requireContinuousPresence
                /\ IsSome(a.movementHistory)
                /\ ~verifyContinuousPresence(Get(a.movementHistory), config.targetLat,
                       config.targetLon, config.radiusMeters,
                       OrElse(config.continuousPresenceDurationSec,
                              DefaultContinuousPresenceDurationSec)).verified

\* the check a reason string belongs to
CheckOfReason(text) ==
  CASE text = InvalidSignatureText -> 1
    [] text = TooOldText -> 2
    [] text = OutsideTimeWindowText -> 3
    [] text = OutsideGeofenceText -> 4
    [] text = ImpossibleSpeedText -> 5
    [] text \in {NoHistoryText, InsufficientPresenceText} -> 6
    [] OTHER -> 0

FailingChecks(a, config, clock) == { i \in 1..6 : CheckFails(i, a, config, clock) }
Earliest(S) == CHOOSE i \in S : \A j \in S : i <= j

\* C1: the pipeline stops at the first failing check in the order signature,
\* freshness, time window, geofence, movement plausibility, continuous
\* presence: whenever an attestation fails one or several checks, the result
\* is invalid and its reason is that of the earliest failing check.
C1_PipelineOrder ==
  Returned =>
    LET failing == FailingChecks(CallAtt, CallCfg, CallAt)
    IN failing # {} =>
         /\ ~CallValue.valid
         /\ CheckOfReason(ReasonText) = Earliest(failing)

\* an attestation with an invalid signature and a position outside the
\* geofence was rejected for its signature
C1_Witness ==
  /\ Returned
  /\ {1, 4} \subseteq FailingChecks(CallAtt, CallCfg, CallAt)
  /\ ReasonText = InvalidSignatureText

\* speed above the ceiling without a division: more millimetres than
\* maxSpeed (m/s = mm/ms) times the milliseconds between the two samples
FasterThan(p, q, maxSpeedMps) ==
  calculateDistance(p.lat, p.lon, q.lat, q.lon) > maxSpeedMps * (q.timestamp - p.timestamp)

NoPairTooFast(history, maxSpeedMps) ==
  LET sorted == SortByTimestamp(history)
  IN \A i \in 2..Len(sorted) : ~FasterThan(sorted[i - 1], sorted[i], maxSpeedMps)

\* C3: a valid result implies that the signature verified, that the age is
\* within [0, max age], that the timestamp is inside the window, that the
\* distance to the target is at most the radius, that a movement history of
\* two or more points has no consecutive pair faster than the speed ceiling,
\* and that the reported distance is the geofence distance.
C3_ValidImpliesAllChecks ==
  (Returned /\ CallValue.valid) =>
    /\ verifyAttestationSignature(CallAtt)
    /\ AgeOk(CallAtt, CallCfg, CallAt)
    /\ InWindow(CallAtt, CallCfg)
    /\ DistanceToTarget(CallAtt, CallCfg) <= CallCfg.radiusMeters
    /\ (IsSome(CallAtt.movementHistory) /\ Len(Get(CallAtt.movementHistory)) >= 2) =>
          NoPairTooFast(Get(CallAtt.movementHistory),
                        OrElse(CallCfg.maxSpeedMps, DefaultMaxSpeedMps))
    /\ CallValue.distance = Some(DistanceToTarget(CallAtt, CallCfg))

\* the attestation passed the three checks that precede the geofence check
ReachedGeofence ==
  /\ Returned
  /\ verifyAttestationSignature(CallAtt)
  /\ AgeOk(CallAtt, CallCfg, CallAt)
  /\ InWindow(CallAtt, CallCfg)

\* C8: the geofence check accepts a position exactly when its distance to
\* the target is at most the radius: at a distance <= radius (equality
\* included) the result is not an outside-geofence rejection, at any larger
\* distance it is one, carrying the outside-geofence reason.
C8_GeofenceBoundary ==
  ReachedGeofence =>
    LET d == DistanceToTarget(CallAtt, CallCfg)
    IN /\ d <= CallCfg.radiusMeters => ReasonText # OutsideGeofenceText
       /\ d > CallCfg.radiusMeters =>
            ~CallValue.valid /\ ReasonText = OutsideGeofenceText

\* a position at exactly the radius was accepted
C8_Witness ==
  /\ ReachedGeofence
  /\ DistanceToTarget(CallAtt, CallCfg) = CallCfg.radiusMeters
  /\ CallValue.valid

\* C9: an attestation with a valid signature and a fresh timestamp is
\* rejected with the outside-time-window reason exactly when its timestamp is
\* before windowStart or after windowEnd; windowStart and windowEnd themselves
\* pass.
C9_TimeWindow ==
  (Returned /\ verifyAttestationSignature(CallAtt) /\ AgeOk(CallAtt, CallCfg, CallAt)) =>
    /\ (CallAtt.timestamp < CallCfg.windowStart \/ CallAtt.timestamp > CallCfg.windowEnd) =>
          ~CallValue.valid /\ ReasonText = OutsideTimeWindowText
    /\ (CallCfg.windowStart <= CallAtt.timestamp /\ CallAtt.timestamp <= CallCfg.windowEnd) =>
          ReasonText # OutsideTimeWindowText

\* a fresh attestation timestamped windowStart - 1 was rejected for the window
C9_Witness ==
  /\ Returned
  /\ verifyAttestationSignature(CallAtt)
  /\ AgeOk(CallAtt, CallCfg, CallAt)
  /\ CallAtt.timestamp = CallCfg.windowStart - 1
  /\ ReasonText = OutsideTimeWindowText

ReachedMovement ==
  /\ ReachedGeofence
  /\ DistanceToTarget(CallAtt, CallCfg) <= CallCfg.radiusMeters

\* the call's movement history has two or more samples
HasLongHistory ==
  IsSome(CallAtt.movementHistory) /\ Len(Get(CallAtt.movementHistory)) >= 2

\* C11: when the movement history has at least two points, the attestation
\* is rejected with the impossible-speed reason if some consecutive pair of
\* the timestamp-sorted history has speed = distance / time difference above
\* the configured ceiling (default 200 m/s).
C11_MovementPlausibility ==
  (ReachedMovement /\ HasLongHistory
     /\ ~NoPairTooFast(Get(CallAtt.movementHistory),
                       OrElse(CallCfg.maxSpeedMps, DefaultMaxSpeedMps))) =>
    /\ ~CallValue.valid
    /\ ReasonText = ImpossibleSpeedText

\* two samples of a history at distinct positions and equal timestamps
ZeroIntervalPair(history) ==
  \E i, j \in DOMAIN history :
    /\ i # j
    /\ history[i].timestamp = history[j].timestamp
    /\ <<history[i].lat, history[i].lon>> # <<history[j].lat, history[j].lon>>

\* C12: a movement history holding two samples at distinct positions with
\* equal timestamps makes the movement plausibility check fail, and the
\* attestation is rejected.
C12_ZeroIntervalRejected ==
  (ReachedMovement /\ IsSome(CallAtt.movementHistory)
     /\ ZeroIntervalPair(Get(CallAtt.movementHistory))) =>
    /\ ~CallValue.valid
    /\ ReasonText = ImpossibleSpeedText

\* some unbroken run of in-geofence samples of a sorted history spans at
\* least requiredMs
HasQualifyingRun(sorted, targetLat, targetLon, radiusMeters, requiredMs) ==
  \E i \in DOMAIN sorted : \E j \in i..Len(sorted) :
    /\ \A k \in i..j : isWithinGeofence(sorted[k].lat, sorted[k].lon, targetLat,
                                        targetLon, radiusMeters).within
    /\ sorted[j].timestamp - sorted[i].timestamp >= requiredMs

\* the minimum presence a configuration asks for, in ms
RequiredPresenceMs(config) ==
  1000 * OrElse(config.continuousPresenceDurationSec, DefaultContinuousPresenceDurationSec)

\* C14: when the configuration requires continuous presence, a valid result
\* implies that the attestation carries a movement history with a contiguous
\* in-geofence span of at least the configured minimum, and an attestation
\* without a movement history that passed the earlier checks is rejected for
\* its presence.
C14_PresenceRequired ==
  (Returned /\ CallCfg.requireContinuousPresence) =>
    /\ CallValue.valid =>
         /\ IsSome(CallAtt.movementHistory)
         /\ HasQualifyingRun(SortByTimestamp(Get(CallAtt.movementHistory)),
                             CallCfg.targetLat, CallCfg.targetLon,
                             CallCfg.radiusMeters, RequiredPresenceMs(CallCfg))
    /\ (ReachedMovement /\ CallAtt.movementHistory = None) =>
         /\ ~CallValue.valid
         /\ CheckOfReason(ReasonText) = 6

----------------------------------------------------------------------------
(* The server and its clients (ServerSpec) *)

\* removes a field of a JSON object
Without(obj, field) == [f \in DOMAIN obj \ {field} |-> obj[f]]

RecipientKey == 2
WrongKey == 3
WindowHours == {1}

\* a message as the compose page posts it at T0, bound to the target
ComposedAtT0 ==
  storedMessage(Text(<<"a">>), "", [lat |-> TargetLat, lon |-> TargetLon], RadiusMm, 1,
                generateX25519KeyPair(RecipientKey).publicKey, T0)

\* the same with a window of one millisecond, expiring with the window
ShortLived ==
  [ComposedAtT0 EXCEPT !.locationBinding.windowEnd = T0 + 1,
                       !.metadata.expiresAt = T0 + 1]

\* bodies clients post: as composed, short-lived, short-lived without an
\* expiry, and three that lack metadata, the wrapped key, the binding
PostBodies ==
  { ComposedAtT0,
    ShortLived,
    [ShortLived EXCEPT !.metadata = Without(ShortLived.metadata, "expiresAt")],
    Without(ComposedAtT0, "metadata"),
    Without(ComposedAtT0, "wrappedKey"),
    Without(ComposedAtT0, "locationBinding") }

MessageIds == {ComposedAtT0.id}

\* the last exchange with the server: the request, the instant the handler
\* read the clock, and the status and body it sent
Exchange(op, id, attestation, clock, reply) ==
  [op |-> op, id |-> id, attestation |-> attestation, at |-> clock,
   status |-> reply.status, body |-> reply.body]

InitServer ==
  /\ now = T0
  /\ att = None
  /\ cfg = None
  /\ result = None
  /\ messages = <<>>
  /\ response = None
  /\ kdf = IdleKdf
  /\ compose = IdleCompose
  /\ viewer = IdleViewer
  /\ relay = IdleRelay

\* a client posts a message
PostMessage ==
  /\ \E message \in PostBodies :
       LET reply == postMessage(messages, message)
       IN /\ messages' = reply.store
          /\ response' = Some(Exchange("post", ComposedAtT0.id, None, now, reply))
  /\ UNCHANGED <<now, att, cfg, result, kdf, compose, viewer, relay>>

\* a client asks for the wrapped key with the attestation in flight, or with
\* none
UnlockMessage ==
  /\ \E id \in MessageIds :
       LET reply == unlockMessage(messages, id, [attestation |-> att], now)
       IN /\ messages' = reply.store
          /\ response' = Some(Exchange("unlock", id, att, now, reply))
  /\ att' = None
  /\ UNCHANGED <<now, cfg, result, kdf, compose, viewer, relay>>

\* a client deletes a message
DeleteMessage ==
  /\ \E id \in MessageIds :
       LET reply == deleteMessage(messages, id)
       IN /\ messages' = reply.store
          /\ response' = Some(Exchange("delete", id, None, now, reply))
  /\ UNCHANGED <<now, att, cfg, result, kdf, compose, viewer, relay>>

NextServer ==
  Tick \/ CreateAttestation \/ AlterAttestation \/ PostMessage \/ UnlockMessage \/ DeleteMessage

ServerSpec == InitServer /\ [][NextServer]_vars

UnlockAnswered == IsSome(response) /\ Get(response).op = "unlock"

\* the unlock handler got as far as calling verifyLocationAttestation, and the
\* call returned
UnlockVerified ==
  /\ UnlockAnswered
  /\ Get(response).id \in DOMAIN messages
  /\ Has(messages[Get(response).id], "metadata")
  /\ ~isExpired(messages[Get(response).id], Get(response).at)
  /\ IsSome(Get(response).attestation)
  /\ ~verifyLocationAttestationThrows(Get(Get(response).attestation))

\* what verifyLocationAttestation returns for the supplied attestation
\* against the stored message's binding
UnlockVerdict ==
  verifyLocationAttestation(Get(Get(response).attestation),
                            unlockConfig(messages[Get(response).id]), Get(response).at)

WrappedKeyFields == {"wrappedKey", "wrappedKeyNonce", "wrappedKeyAuthTag"}

\* C2: the unlock endpoint sends wrapped-key fields only when the pipeline
\* returned valid for the supplied attestation against the stored binding;
\* when it returned valid the body is the stored wrapped key, its nonce and
\* tag, and the distance; when it returned not valid the body is a denial with
\* the reason and, when computed, the distance, and nothing else
C2_UnlockReleasesKeyIffValid ==
  UnlockAnswered =>
    LET r == Get(response)
    IN /\ (DOMAIN r.body \cap WrappedKeyFields # {}) => (UnlockVerified /\ UnlockVerdict.valid)
       /\ (UnlockVerified /\ UnlockVerdict.valid) =>
            /\ r.status = 200
            /\ r.body = [unlocked |-> TRUE,
                         wrappedKey |-> messages[r.id].wrappedKey,
                         wrappedKeyNonce |-> messages[r.id].wrappedKeyNonce,
                         wrappedKeyAuthTag |-> messages[r.id].wrappedKeyAuthTag,
                         distance |-> Get(UnlockVerdict.distance)]
       /\ (UnlockVerified /\ ~UnlockVerdict.valid) =>
            /\ r.status = 403
            /\ DOMAIN r.body \subseteq {"unlocked", "reason", "distance"}
            /\ r.body.unlocked = FALSE
            /\ r.body.reason = Get(UnlockVerdict.reason)
            /\ Has(r.body, "distance") <=> IsSome(UnlockVerdict.distance)
            /\ Has(r.body, "distance") => r.body.distance = Get(UnlockVerdict.distance)

\* an unlock was granted: the pipeline returned valid and the wrapped key left
C2_Witness ==
  /\ UnlockVerified
  /\ UnlockVerdict.valid
  /\ Get(response).status = 200
  /\ Has(Get(response).body, "wrappedKey")

\* the attestation of the unlock request passes the signature, freshness and
\* time-window checks against the stored message's binding
UnlockReachedGeofence ==
  LET a == Get(Get(response).attestation)
      config == unlockConfig(messages[Get(response).id])
  IN /\ verifyAttestationSignature(a)
     /\ AgeOk(a, config, Get(response).at)
     /\ InWindow(a, config)

\* the distance of the unlock request's position to the stored target
UnlockDistance ==
  DistanceToTarget(Get(Get(response).attestation),
                   unlockConfig(messages[Get(response).id]))

\* C15: a verification result carries a distance exactly when the geofence
\* check was reached, that is when the signature, freshness and time-window
\* checks passed; it is then the computed distance, whatever the outcome. The
\* unlock endpoint's response carries a distance in exactly those cases.
C15_DistanceDisclosure ==
  UnlockAnswered =>
    LET r == Get(response)
    IN /\ UnlockVerified =>
            /\ IsSome(UnlockVerdict.distance) <=> UnlockReachedGeofence
            /\ UnlockReachedGeofence => UnlockVerdict.distance = Some(UnlockDistance)
       /\ Has(r.body, "distance") <=> (UnlockVerified /\ UnlockReachedGeofence)
       /\ Has(r.body, "distance") => r.body.distance = UnlockDistance

\* an unlock was denied for a position outside the geofence, and the denial
\* carries the distance
C15_Witness ==
  /\ UnlockVerified
  /\ Get(response).status = 403
  /\ UnlockVerdict.reason # None
  /\ Get(UnlockVerdict.reason).text = OutsideGeofenceText
  /\ Has(Get(response).body, "distance")
  /\ Get(response).body.distance > messages[Get(response).id].locationBinding.radiusMeters

\* an unlock was denied at the time-window check, and the denial carries no
\* distance
C15_WitnessEarly ==
  /\ UnlockVerified
  /\ Get(response).status = 403
  /\ Get(UnlockVerdict.reason).text = OutsideTimeWindowText
  /\ ~Has(Get(response).body, "distance")

\* an unlock was denied at the movement check, after the geofence check, and
\* the denial carries the distance
C15_WitnessLate ==
  /\ UnlockVerified
  /\ Get(response).status = 403
  /\ Get(UnlockVerdict.reason).text = ImpossibleSpeedText
  /\ Has(Get(response).body, "distance")

----------------------------------------------------------------------------
(* The message store over time (StoreSpec) *)

\* a client reads a message's public fields
GetMessage ==
  /\ \E id \in MessageIds :
       LET reply == getMessage(messages, id, now)
       IN /\ messages' = reply.store
          /\ response' = Some(Exchange("get", id, None, now, reply))
  /\ UNCHANGED <<now, att, cfg, result, kdf, compose, viewer, relay>>

\* a client reads the whole stored message
GetEncrypted ==
  /\ \E id \in MessageIds :
       LET reply == getEncrypted(messages, id, now)
       IN /\ messages' = reply.store
          /\ response' = Some(Exchange("encrypted", id, None, now, reply))
  /\ UNCHANGED <<now, att, cfg, result, kdf, compose, viewer, relay>>

\* a client lists the messages
ListMessages ==
  /\ LET reply == listMessages(messages, now)
     IN /\ messages' = reply.store
        /\ response' = Some(Exchange("list", "", None, now, reply))
  /\ UNCHANGED <<now, att, cfg, result, kdf, compose, viewer, relay>>

NextStore ==
  \/ Tick \/ CreateAttestation \/ PostMessage \/ GetMessage \/ GetEncrypted
  \/ UnlockMessage \/ DeleteMessage \/ ListMessages

StoreSpec == InitServer /\ [][NextStore]_vars

\* this step answers a request of one of the three serving endpoints for id
Serves(id) ==
  /\ IsSome(response')
  /\ Get(response').op \in {"get", "encrypted", "unlock"}
  /\ Get(response').id = id

\* C17: a stored message is served by GET /api/messages/:id, by
\* GET /api/messages/:id/encrypted and by POST /api/messages/:id/unlock only
\* while now <= its locationBinding.windowEnd; a request after windowEnd is
\* answered as expired (410) and removes the message from the store.
C17_ExpiryFollowsBinding ==
  [][\A id \in DOMAIN messages :
       (Serves(id) /\ Has(messages[id], "locationBinding")
          /\ Has(messages[id], "metadata")) =>
         IF now > messages[id].locationBinding.windowEnd
         THEN Get(response').status = 410 /\ id \notin DOMAIN messages'
         ELSE Get(response').status # 410 /\ messages' = messages]_vars

\* C18: once a message is stored under an identifier its stored fields never
\* change while it remains in the store (a later POST with the same id does
\* not replace it), and it leaves the store only by deletion on expiry.
C18_StoredImmutable ==
  [][\A id \in DOMAIN messages :
       /\ id \in DOMAIN messages' => messages'[id] = messages[id]
       /\ id \notin DOMAIN messages' =>
            /\ Has(messages[id], "metadata")
            /\ isExpired(messages[id], now)
            /\ Get(response').status = 410]_vars

MessageFields ==
  {"id", "senderPublicKey", "recipientPublicKey", "encryptedPayload", "payloadNonce",
   "payloadAuthTag", "wrappedKey", "wrappedKeyNonce", "wrappedKeyAuthTag",
   "locationBinding", "metadata"}
PublicFields == {"id", "locationBinding", "metadata", "senderPublicKey", "recipientPublicKey"}

\* the answer r to a lookup of id, given the store as the request found it
AnswersFromStore(id, r, store, storeAfter) ==
  /\ r.status = 404 <=> id \notin DOMAIN store
  /\ r.status = 410 =>
       /\ Has(store[id], "metadata") /\ isExpired(store[id], r.at)
       /\ id \notin DOMAIN storeAfter
  /\ r.status = 200 =>
       /\ Has(store[id], "metadata") /\ ~isExpired(store[id], r.at)
       /\ storeAfter = store
       /\ CASE r.op = "get" ->
                 /\ DOMAIN r.body = DOMAIN store[id] \cap PublicFields
                 /\ \A f \in DOMAIN r.body : r.body[f] = store[id][f]
            [] r.op = "encrypted" -> r.body = store[id]
            [] OTHER ->
                 /\ DOMAIN r.body \cap MessageFields = WrappedKeyFields
                 /\ \A f \in WrappedKeyFields : r.body[f] = store[id][f]
  /\ r.status \notin {200, 404, 410} =>
       /\ DOMAIN r.body \cap MessageFields = {}
       /\ storeAfter = store

\* C24: in every interleaving of GET /api/messages/:id,
\* GET /api/messages/:id/encrypted, POST /api/messages/:id/unlock,
\* DELETE /api/messages/:id and expiry for one identifier, each lookup
\* response is built entirely from the complete message as stored when the
\* request arrived, or is a not-found or expired answer, or (a denial, an
\* error) carries no field of a message; none mixes fields of a removed or
\* partially written message.
C24_LookupAtomic ==
  [][\A id \in MessageIds :
       Serves(id) => AnswersFromStore(id, Get(response'), messages, messages')]_vars

\* the whole stored message was served at an instant later than T0, the store
\* still holding it
C24_Witness ==
  /\ IsSome(response)
  /\ Get(response).op = "encrypted"
  /\ Get(response).status = 200
  /\ Get(response).at > T0
  /\ Get(response).id \in DOMAIN messages
  /\ Get(response).body = messages[Get(response).id]

\* a lookup was answered as expired and the message is gone
C24_WitnessExpired ==
  /\ IsSome(response)
  /\ Get(response).op \in {"get", "encrypted", "unlock"}
  /\ Get(response).status = 410
  /\ Get(response).id \notin DOMAIN messages

\* this step answers a POST /api/messages
Posts == IsSome(response') /\ Get(response').op = "post"

\* C25: whenever POST /api/messages answers with an error status (400 or 500)
\* the message store is the same as before the request, so a message is in
\* the store only if its POST was answered with success.
C25_FailedPostLeavesStore ==
  [][(Posts /\ Get(response').status # 200) => messages' = messages]_vars

\* this step answers a GET /api/messages with a list
Lists == IsSome(response') /\ Get(response').op = "list" /\ Get(response').status = 200

\* C30: GET /api/messages never lists a message whose metadata.expiresAt is
\* in the past; the listed identifiers are exactly those that a
\* GET /api/messages/:id at the same instant would serve as not expired.
C30_ListRespectsExpiry ==
  [][Lists =>
       { e.id : e \in Get(response').body.messages }
         = { id \in DOMAIN messages : getMessage(messages, id, now).status = 200 }]_vars

----------------------------------------------------------------------------
(* Sealing on the compose page, unsealing on the viewer page (SealSpec) *)

\* what the sender types: a letter, an emoji (a surrogate pair), an unpaired
\* high surrogate, a letter followed by an unpaired low surrogate
Plaintexts ==
  { Text(<<"a">>), Text(<<HighSurrogate, LowSurrogate>>),
    Text(<<HighSurrogate>>), Text(<<"a", LowSurrogate>>) }

\* the recipient's public key, or text that is not a key
RecipientPublicKeys == {generateX25519KeyPair(RecipientKey).publicKey, Text(<<"a">>)}

\* the recipient's private key, another private key, or text that is not a key
RecipientPrivateKeys ==
  { generateX25519KeyPair(RecipientKey).privateKey,
    generateX25519KeyPair(WrongKey).privateKey,
    Text(<<"a">>) }

OtherNonce == encodeBase64([nonce |-> "n2"])

\* a binding with one field changed: a coordinate by 0.0000004 or by
\* 0.000001 degrees, the radius by 1, a window edge by 1 ms, the nonce
BindingChanges(b) ==
  { [b EXCEPT !.latitude = @ + 4], [b EXCEPT !.latitude = @ + 10],
    [b EXCEPT !.longitude = @ + 10], [b EXCEPT !.radiusMeters = @ + 1],
    [b EXCEPT !.windowStart = @ + 1], [b EXCEPT !.windowEnd = @ + 1],
    [b EXCEPT !.nonce = OtherNonce] }

InitSeal ==
  /\ now = T0
  /\ att = None
  /\ cfg = None
  /\ result = None
  /\ messages = <<>>
  /\ response = None
  /\ kdf = IdleKdf
  /\ compose = IdleCompose
  /\ viewer = IdleViewer
  /\ relay = IdleRelay

\* the sender fills in the message and the recipient's key and goes on to the
\* location step (the button is disabled while either is empty)
GoToLocation ==
  /\ compose.step = "compose"
  /\ \E message \in Plaintexts, recipientPublicKey \in RecipientPublicKeys :
       compose' = [step |-> "location", message |-> message,
                   recipientPublicKey |-> recipientPublicKey]
  /\ UNCHANGED <<now, att, cfg, result, messages, response, kdf, viewer, relay>>

\* handleEncrypt: seal, post, show the id; an exception leaves the page at the
\* encrypt step with an alert
HandleEncrypt ==
  /\ compose.step = "location"
  /\ \E coordinates \in {[lat |-> TargetLat, lon |-> TargetLon]}, windowHours \in WindowHours :
       IF computeSharedSecretThrows(generateX25519KeyPair(SenderKey).privateKey,
                                    compose.recipientPublicKey)
       THEN /\ compose' = [step |-> "encrypt", message |-> compose.message,
                           recipientPublicKey |-> compose.recipientPublicKey,
                           alert |-> "Encryption failed"]
            /\ UNCHANGED <<messages, response, relay>>
       ELSE LET sealed == storedMessage(compose.message, "", coordinates, RadiusMm,
                                        windowHours, compose.recipientPublicKey, now)
                reply == postMessage(messages, sealed)
            IN /\ messages' = reply.store
               /\ response' = Some(Exchange("post", sealed.id, None, now, reply))
               /\ compose' = [step |-> "done", message |-> compose.message,
                              recipientPublicKey |-> compose.recipientPublicKey,
                              sealed |-> sealed,
                              messageId |-> IF Has(reply.body, "messageId")
                                            THEN Some(reply.body.messageId) ELSE None]
  /\ UNCHANGED <<now, att, cfg, result, kdf, viewer, relay>>

\* a client that has seen the sealed message posts it again under the same id
\* with one field of the binding changed
RepostAltered ==
  /\ compose.step = "done"
  /\ \E b \in BindingChanges(compose.sealed.locationBinding) :
       LET reply == postMessage(messages, [compose.sealed EXCEPT !.locationBinding = b])
       IN /\ messages' = reply.store
          /\ response' = Some(Exchange("post", compose.sealed.id, None, now, reply))
  /\ UNCHANGED <<now, att, cfg, result, kdf, compose, viewer, relay>>

\* fetchMessage, when the viewer page mounts: whatever JSON the server sends
\* becomes the message
FetchMessage ==
  /\ viewer.loading
  /\ \E id \in MessageIds :
       LET reply == getEncrypted(messages, id, now)
       IN /\ messages' = reply.store
          /\ response' = Some(Exchange("encrypted", id, None, now, reply))
          /\ viewer' = IF reply.status = 500
                       THEN [loading |-> FALSE, message |-> None, decrypted |-> None,
                             error |-> Some([text |-> "Failed to fetch message"])]
                       ELSE [loading |-> FALSE, message |-> Some(reply.body),
                             decrypted |-> None, error |-> None]
  /\ UNCHANGED <<now, att, cfg, result, kdf, compose, relay>>

\* someone who has seen the sealed message posts it again under the same id
\* with the payload's authentication tag replaced by the wrapped key's
RepostTampered ==
  /\ compose.step = "done"
  /\ LET reply == postMessage(messages, [compose.sealed EXCEPT
                                           !.payloadAuthTag = compose.sealed.wrappedKeyAuthTag])
     IN /\ messages' = reply.store
        /\ response' = Some(Exchange("post", compose.sealed.id, None, now, reply))
  /\ UNCHANGED <<now, att, cfg, result, kdf, compose, viewer, relay>>

\* handleUnlock with the private key and the position the recipient entered,
\* at the instant `at`; the form and its button are rendered only while
\* nothing is decrypted. `attempt` is what this call did, `decrypted` and
\* `error` the page's state after it
HandleUnlock ==
  /\ ~viewer.loading
  /\ IsSome(viewer.message)
  /\ viewer.decrypted = None
  /\ \E recipientPrivateKey \in RecipientPrivateKeys, userLat \in {TargetLat, FarLat} :
       LET attempt == handleUnlock(Get(viewer.message), recipientPrivateKey,
                                   userLat, TargetLon)
       IN viewer' = [loading |-> FALSE, message |-> viewer.message,
                     recipientPrivateKey |-> recipientPrivateKey,
                     userLat |-> userLat, at |-> now, attempt |-> attempt,
                     decrypted |-> IF IsSome(attempt.decrypted) THEN attempt.decrypted
                                   ELSE viewer.decrypted,
                     error |-> attempt.error]
  /\ response' = None
  /\ UNCHANGED <<now, att, cfg, result, messages, kdf, compose, relay>>

\* the clock of the pages, in ms after T0: up to the end of a one-hour
\* window opened at T0, and one millisecond past it
SealClockOffsets == {1, HourMs, HourMs + 1}

TickSeal ==
  /\ \E d \in SealClockOffsets :
       /\ T0 + d > now
       /\ now' = T0 + d
  /\ result' = None
  /\ response' = None
  /\ UNCHANGED <<att, cfg, messages, kdf, compose, viewer, relay>>

NextSeal ==
  \/ TickSeal \/ GoToLocation \/ HandleEncrypt \/ RepostAltered \/ RepostTampered
  \/ FetchMessage \/ HandleUnlock

SealSpec == InitSeal /\ [][NextSeal]_vars

\* the compose page sealed a message and the viewer page ran handleUnlock
Sealed == compose.step = "done"
UnlockTried == Has(viewer, "attempt")

\* the viewer's private key gives the shared secret the sender sealed with
SameSharedSecret ==
  /\ ~computeSharedSecretThrows(viewer.recipientPrivateKey, compose.sealed.senderPublicKey)
  /\ computeSharedSecret(viewer.recipientPrivateKey, compose.sealed.senderPublicKey)
       = computeSharedSecret(generateX25519KeyPair(SenderKey).privateKey,
                             compose.recipientPublicKey)

\* unsealing what was sealed: the viewer holds the sealed message, derives
\* from the same shared secret, and its position check let it proceed
UnsealsTheSealed ==
  /\ Sealed
  /\ UnlockTried
  /\ viewer.message = Some(compose.sealed)
  /\ SameSharedSecret
  /\ viewer.attempt.stage # "distance"

RECURSIVE WellFormed(_)
\* a string in which every surrogate is half of a pair
WellFormed(units) ==
  \/ units = <<>>
  \/ /\ Len(units) >= 2
     /\ units[1] = HighSurrogate
     /\ units[2] = LowSurrogate
     /\ WellFormed(Tail(Tail(units)))
  \/ /\ units # <<>>
     /\ units[1] \notin {HighSurrogate, LowSurrogate}
     /\ WellFormed(Tail(units))

UnsealsUnderOtherBinding ==
  /\ Sealed
  /\ UnlockTried
  /\ IsSome(viewer.message)
  /\ Has(Get(viewer.message), "locationBinding")
  /\ Get(viewer.message) = [compose.sealed EXCEPT !.locationBinding =
                                                    Get(viewer.message).locationBinding]
  /\ SameSharedSecret
  /\ viewer.attempt.stage # "distance"

FailedAtUnwrap ==
  /\ viewer.attempt.stage = "unwrap"
  /\ viewer.attempt.error = Some(DecryptionFailed("OperationError"))
  /\ viewer.attempt.decrypted = None

EncodedBinding(b) ==
  locationInfo(b.latitude, b.longitude, b.radiusMeters, b.windowStart, b.windowEnd, b.nonce)

ViewerHasBinding ==
  IsSome(viewer.message) /\ Has(Get(viewer.message), "locationBinding")

\* the key the viewer derives for the message it holds
ViewerLocationBoundKey ==
  LET m == Get(viewer.message)
      b == m.locationBinding
  IN deriveLocationBoundKeyBrowser(
       computeSharedSecret(viewer.recipientPrivateKey, m.senderPublicKey),
       b.latitude, b.longitude, b.radiusMeters, b.windowStart, b.windowEnd, b.nonce)

\* the position entered is within the radius of the binding
ViewerWithinRadius ==
  LET b == Get(viewer.message).locationBinding
  IN calculateDistance(viewer.userLat, TargetLon, b.latitude, b.longitude) <= b.radiusMeters

\* the unwrap of the content key succeeds
ViewerUnwraps ==
  LET m == Get(viewer.message)
  IN /\ ~computeSharedSecretThrows(viewer.recipientPrivateKey, m.senderPublicKey)
     /\ ~unwrapKeyBrowserThrows(m.wrappedKey, ViewerLocationBoundKey,
                                m.wrappedKeyNonce, m.wrappedKeyAuthTag)

\* the decryption of the payload under the unwrapped key succeeds
ViewerDecrypts ==
  LET m == Get(viewer.message)
  IN ~aesGcmDecryptBrowserThrows(m.encryptedPayload,
        unwrapKeyBrowser(m.wrappedKey, ViewerLocationBoundKey,
                         m.wrappedKeyNonce, m.wrappedKeyAuthTag),
        m.payloadNonce, m.payloadAuthTag)

ViewerUnlocks ==
  ViewerHasBinding /\ ViewerWithinRadius /\ ViewerUnwraps /\ ViewerDecrypts

\* C16: the viewer page holds a decrypted plaintext only after an unlock in
\* which the position was within the radius and both the unwrap of the
\* content key and the decryption of the payload succeeded; after an unlock
\* in which any of these failed, the page holds no plaintext and no content
\* key, only an error.
C16_NoPartialDecryption ==
  ~viewer.loading =>
    /\ IsSome(viewer.decrypted) => (UnlockTried /\ ViewerUnlocks)
    /\ (UnlockTried /\ ~ViewerUnlocks) =>
         /\ viewer.decrypted = None
         /\ viewer.attempt.decrypted = None
         /\ IsSome(viewer.error)
         /\ DOMAIN viewer = {"loading", "message", "recipientPrivateKey", "userLat",
                             "at", "attempt", "decrypted", "error"}

\* the content key was unwrapped, the payload failed to authenticate, and
\* the page shows an error and no plaintext
C16_Witness ==
  /\ UnlockTried
  /\ ViewerHasBinding /\ ViewerWithinRadius /\ ViewerUnwraps /\ ~ViewerDecrypts
  /\ viewer.attempt.stage = "decrypt"
  /\ viewer.decrypted = None
  /\ IsSome(viewer.error)

\* an unlock outside the radius with the right key showed only an error
C16_WitnessTooFar ==
  /\ UnlockTried
  /\ ViewerHasBinding /\ ~ViewerWithinRadius /\ ViewerUnwraps /\ ViewerDecrypts
  /\ viewer.decrypted = None
  /\ IsSome(viewer.error)

\* C19: handleUnlock reveals the plaintext only when the current time lies
\* within the message's [windowStart, windowEnd]; after windowEnd the unlock
\* fails, also for a message fetched before it expired.
C19_UnlockWithinWindow ==
  (~viewer.loading /\ UnlockTried /\ IsSome(viewer.decrypted)) =>
    LET b == Get(viewer.message).locationBinding
    IN b.windowStart <= viewer.at /\ viewer.at <= b.windowEnd

----------------------------------------------------------------------------
(* Key derivation by two parties (KdfSpec) *)

\* shared secrets: two that computeSharedSecret returns, and a string that is
\* not base64
SharedSecrets ==
  { computeSharedSecret(generateX25519KeyPair(SenderKey).privateKey,
                        generateX25519KeyPair(RecipientKey).publicKey),
    computeSharedSecret(generateX25519KeyPair(SenderKey).privateKey,
                        generateX25519KeyPair(WrongKey).publicKey),
    Text(<<"!">>) }

\* longitudes 73.856700 and 73.856701; latitudes 0, 0.0000004, 0.000001
KdfInputs ==
  [sharedSecret : SharedSecrets, lat : {0, 4, 10}, lon : {738567000, 738567010},
   radiusMeters : {100, 101}, windowStart : {T0, T0 + 1},
   windowEnd : {T0 + HourMs, T0 + HourMs + 1}, nonce : {KeyNonce, OtherNonce}]

KdfFields ==
  {"sharedSecret", "lat", "lon", "radiusMeters", "windowStart", "windowEnd", "nonce"}

DifferingFields(i, j) == {f \in KdfFields : i[f] # j[f]}

\* what a call of deriveLocationBoundKey does in each implementation
DeriveBackend(i) ==
  [impl |-> "backend", threw |-> FALSE,
   key |-> Some(deriveLocationBoundKey(i.sharedSecret, i.lat, i.lon, i.radiusMeters,
                                       i.windowStart, i.windowEnd, i.nonce))]

DeriveBrowser(i) ==
  IF hkdfBrowserThrows(i.sharedSecret, KeyLength)
  THEN [impl |-> "browser", threw |-> TRUE, key |-> None]
  ELSE [impl |-> "browser", threw |-> FALSE,
        key |-> Some(deriveLocationBoundKeyBrowser(i.sharedSecret, i.lat, i.lon,
                       i.radiusMeters, i.windowStart, i.windowEnd, i.nonce))]

InitKdf ==
  /\ now = T0
  /\ att = None
  /\ cfg = None
  /\ result = None
  /\ messages = <<>>
  /\ response = None
  /\ kdf = IdleKdf
  /\ compose = IdleCompose
  /\ viewer = IdleViewer
  /\ relay = IdleRelay

\* the sender derives the key on the backend implementation
SenderDerives ==
  /\ kdf.phase = "idle"
  /\ \E i \in KdfInputs :
       kdf' = [phase |-> "sender", input |-> i, sender |-> DeriveBackend(i)]
  /\ UNCHANGED <<now, att, cfg, result, messages, response, compose, viewer, relay>>

\* the recipient derives, on either implementation, from the same inputs or
\* from inputs that differ in one field
RecipientDerives ==
  /\ kdf.phase = "sender"
  /\ \E j \in KdfInputs :
       /\ Cardinality(DifferingFields(kdf.input, j)) <= 1
       /\ \/ kdf' = [phase |-> "both", input |-> kdf.input, sender |-> kdf.sender,
                     other |-> j, recipient |-> DeriveBackend(j)]
          \/ kdf' = [phase |-> "both", input |-> kdf.input, sender |-> kdf.sender,
                     other |-> j, recipient |-> DeriveBrowser(j)]
  /\ UNCHANGED <<now, att, cfg, result, messages, response, compose, viewer, relay>>

NextKdf == SenderDerives \/ RecipientDerives

KdfSpec == InitKdf /\ [][NextKdf]_vars

BothDerived == kdf.phase = "both"

DifferInOneBindingField ==
  /\ Cardinality(DifferingFields(kdf.input, kdf.other)) = 1
  /\ kdf.other.sharedSecret = kdf.input.sharedSecret
  /\ kdf.other.lat = kdf.input.lat \/ Abs(kdf.other.lat - kdf.input.lat) >= 10
  /\ kdf.other.lon = kdf.input.lon \/ Abs(kdf.other.lon - kdf.input.lon) >= 10

InfoOf(i) == locationInfo(i.lat, i.lon, i.radiusMeters, i.windowStart, i.windowEnd, i.nonce)

\* C7: for one shared secret, two bindings that differ in a single field (a
\* coordinate by 0.000001 degrees or more, the radius, a window edge by 1 ms,
\* the nonce) are encoded into different info strings and yield different keys
C7_Sensitivity ==
  (BothDerived /\ kdf.recipient.impl = "backend" /\ DifferInOneBindingField) =>
    /\ InfoOf(kdf.input) # InfoOf(kdf.other)
    /\ kdf.recipient.key # kdf.sender.key

\* the keys for longitudes 73.856700 and 73.856701 were derived and differ
C7_Witness ==
  /\ BothDerived
  /\ kdf.recipient.impl = "backend"
  /\ DifferInOneBindingField
  /\ {kdf.input.lon, kdf.other.lon} = {738567000, 738567010}
  /\ kdf.recipient.key # kdf.sender.key

----------------------------------------------------------------------------
(* Continuous presence on its own (PresenceSpec) *)

MaxPresenceHist == 3

\* samples one second apart, inside the geofence (at the target) or outside
\* it (1000 m away, the radius being 100 m)
PresencePoints ==
  { [lat |-> TargetLat, lon |-> TargetLon, timestamp |-> T0 - 2000],
    [lat |-> TargetLat, lon |-> TargetLon, timestamp |-> T0 - 1000],
    [lat |-> TargetLat, lon |-> TargetLon, timestamp |-> T0],
    [lat |-> FarLat, lon |-> TargetLon, timestamp |-> T0 - 1000],
    [lat |-> FarLat, lon |-> TargetLon, timestamp |-> T0] }

PresenceHistories == UNION { [1..n -> PresencePoints] : n \in 0..MaxPresenceHist }

\* requiredDurationSec
RequiredDurations == {1, 2}

InitPresence ==
  /\ now = T0
  /\ att \in { [movementHistory |-> h] : h \in PresenceHistories }
  /\ cfg \in { [targetLat |-> TargetLat, targetLon |-> TargetLon,
                radiusMeters |-> RadiusMm, continuousPresenceDurationSec |-> d]
               : d \in RequiredDurations }
  /\ result = None
  /\ messages = <<>>
  /\ response = None
  /\ kdf = IdleKdf
  /\ compose = IdleCompose
  /\ viewer = IdleViewer
  /\ relay = IdleRelay

\* one call of verifyContinuousPresence
VerifyPresence ==
  /\ result = None
  /\ result' = Some(verifyContinuousPresence(att.movementHistory, cfg.targetLat,
                      cfg.targetLon, cfg.radiusMeters,
                      cfg.continuousPresenceDurationSec))
  /\ UNCHANGED <<now, att, cfg, messages, response, kdf, compose, viewer, relay>>

NextPresence == VerifyPresence

PresenceSpec == InitPresence /\ [][NextPresence]_vars

\* C13: verifyContinuousPresence succeeds exactly when the timestamp-sorted
\* history contains some unbroken run of in-geofence samples whose span is at
\* least the required duration, wherever in the history that run lies.
C13_LongestRun ==
  IsSome(result) =>
    (Get(result).verified <=>
       HasQualifyingRun(SortByTimestamp(att.movementHistory), cfg.targetLat,
                        cfg.targetLon, cfg.radiusMeters,
                        1000 * cfg.continuousPresenceDurationSec))

----------------------------------------------------------------------------
(* The simplified demo server and its XOR cipher (DemoSpec) *)

\* a JSON number as express.json() parses it: finite, or Infinity for a
\* literal beyond the double range such as 1e999; NaN arises in arithmetic
Num(n) == [num |-> n]
Infinity == [infinite |-> TRUE]
NaN == [nan |-> TRUE]
IsFinite(x) == "num" \in DOMAIN x

\* x > y of two JS numbers: false when either is NaN
JsGreater(x, y) == IsFinite(x) /\ IsFinite(y) /\ x.num > y.num

\* Math.round of a distance carried in mm, in whole metres
MathRound(x) == IF IsFinite(x) THEN Num((x.num + 500) \div 1000) ELSE x

\* JSON.stringify writes NaN as null
JsonNumber(x) == IF x = NaN THEN [null |-> TRUE] ELSE x

\* simple-crypto's calculateDistance: the sine of an infinite angle is NaN
demoCalculateDistance(lat1, lon1, lat2, lon2) ==
  IF IsFinite(lat1) /\ IsFinite(lon1) /\ IsFinite(lat2) /\ IsFinite(lon2)
  THEN Num(calculateDistance(lat1.num, lon1.num, lat2.num, lon2.num))
  ELSE NaN

\* lat.toFixed(precision) of a coordinate carried in 1e-7 degrees
toFixedDigits(x, precision) ==
  IF ~IsFinite(x) THEN [text |-> "Infinity"]
  ELSE LET unit == CASE precision = 5 -> 100 [] precision = 3 -> 10000 [] OTHER -> 100000
       IN [neg |-> x.num < 0, digits |-> precision,
           value |-> (Abs(x.num) + unit \div 2) \div unit]

\* the radius is carried in mm
createLocationKey(lat, lon, radiusMeters) ==
  LET precision == IF radiusMeters <= 10000 THEN 5
                   ELSE IF radiusMeters <= 100000 THEN 3 ELSE 2
  IN [sha256 |-> <<toFixedDigits(lat, precision), toFixedDigits(lon, precision)>>]

\* Buffer.from(message, 'utf8') XOR the key
xorEncrypt(message, key) == [xor |-> <<key, [utf8 |-> ScalarValues(message.units)]>>]

\* XOR the key again, then toString('utf8'); under another key the bytes
\* are gibberish
xorDecrypt(encryptedBytes, key) ==
  IF encryptedBytes.xor[1] = key THEN [units |-> CodeUnits(encryptedBytes.xor[2].utf8)]
  ELSE [garbled |-> <<encryptedBytes, key>>]

encryptMessage(message, destLat, destLon, radiusMeters) ==
  [encrypted |-> encodeBase64(xorEncrypt(message,
                                         createLocationKey(destLat, destLon, radiusMeters))),
   lat |-> destLat, lon |-> destLon, radius |-> radiusMeters]

decryptMessage(encryptedBase64, currentLat, currentLon, targetLat, targetLon, radiusMeters) ==
  LET distance == demoCalculateDistance(currentLat, currentLon, targetLat, targetLon)
  IN IF JsGreater(distance, Num(radiusMeters))
     THEN [success |-> FALSE, distance |-> MathRound(distance)]
     ELSE [success |-> TRUE,
           message |-> xorDecrypt(decodeBase64(encryptedBase64),
                                  createLocationKey(targetLat, targetLon, radiusMeters)),
           distance |-> MathRound(distance)]

\* radiusMeters = 100, the default of the destructuring
DemoDefaultRadius == 100000

\* app.post('/api/send'); `suffix` is the random part of the id
apiSend(store, body, clock, suffix) ==
  IF \/ ~Has(body, "message") \/ body.message.units = <<>> \/ ~Has(body, "senderName")
     \/ ~Has(body, "targetLat") \/ ~Has(body, "targetLon")
  THEN Reply(400, [error |-> "Missing required fields: message, senderName, targetLat, targetLon"],
             store)
  ELSE LET radiusMeters == IF Has(body, "radiusMeters") THEN body.radiusMeters
                           ELSE DemoDefaultRadius
           encrypted == encryptMessage(body.message, body.targetLat, body.targetLon,
                                       radiusMeters)
           id == "msg_" \o ToString(clock) \o "_" \o ToString(suffix)
       IN Reply(200,
                [success |-> TRUE, messageId |-> id, encrypted |-> encrypted.encrypted,
                 target |-> [lat |-> body.targetLat, lon |-> body.targetLon,
                             radius |-> radiusMeters]],
                Put(store, id,
                    [id |-> id, encrypted |-> encrypted.encrypted,
                     targetLat |-> encrypted.lat, targetLon |-> encrypted.lon,
                     radiusMeters |-> encrypted.radius, senderName |-> body.senderName,
                     timestamp |-> clock]))

\* app.post('/api/decrypt')
apiDecrypt(store, body) ==
  IF ~Has(body, "messageId") \/ ~Has(body, "currentLat") \/ ~Has(body, "currentLon")
  THEN Reply(400, [error |-> "Missing required fields: messageId, currentLat, currentLon"],
             store)
  ELSE IF body.messageId \notin DOMAIN store THEN Reply(404, NotFound, store)
  ELSE LET message == store[body.messageId]
           result_ == decryptMessage(message.encrypted, body.currentLat, body.currentLon,
                                     message.targetLat, message.targetLon,
                                     message.radiusMeters)
       IN IF result_.success
          THEN Reply(200,
                     [success |-> TRUE, message |-> result_.message,
                      distance |-> JsonNumber(result_.distance),
                      senderName |-> message.senderName],
                     store)
          ELSE Reply(200,
                     [success |-> FALSE, distance |-> JsonNumber(result_.distance),
                      required |-> message.radiusMeters, encrypted |-> message.encrypted],
                     store)

MaxDemoMessages == 2

\* what Officer 1 sends: a letter, an emoji, an unpaired surrogate, nothing
DemoTexts ==
  { Text(<<"a">>), Text(<<HighSurrogate, LowSurrogate>>), Text(<<HighSurrogate>>),
    Text(<<>>) }

\* bodies of /api/send: the target with a radius of 100.004 m, of 5 m, or
\* with the default radius, and one without a target
SendBodies ==
  LET full == { [message |-> m, senderName |-> "Officer Alpha",
                 targetLat |-> Num(TargetLat), targetLon |-> Num(TargetLon),
                 radiusMeters |-> r] : m \in DemoTexts, r \in {RadiusMm, 5000} }
  IN full \cup { Without(b, "radiusMeters") : b \in full }
          \cup { Without(b, "targetLat") : b \in full }

\* positions Officer 2 submits: the target, 100.004 m and 100.015 m and
\* 1000 m north of it, and the latitude 1e999
CurrentLats == { Num(TargetLat), Num(8994), Num(8995), Num(FarLat), Infinity }

DemoIds == { "msg_" \o ToString(T0) \o "_" \o ToString(s) : s \in 1..MaxDemoMessages }

\* bodies of /api/decrypt
DecryptBodies ==
  LET full == { [messageId |-> id, currentLat |-> lat, currentLon |-> Num(TargetLon)]
                : id \in DemoIds \cup {"msg_0_0"}, lat \in CurrentLats }
  IN full \cup { Without(b, "currentLat") : b \in full }

\* `compose` is what Officer 1 knows: the body sent under each id
InitDemo ==
  /\ now = T0
  /\ att = None
  /\ cfg = None
  /\ result = None
  /\ messages = <<>>
  /\ response = None
  /\ kdf = IdleKdf
  /\ compose = [step |-> "compose", sent |-> <<>>]
  /\ viewer = IdleViewer
  /\ relay = IdleRelay

\* Officer 1 sends a message
DemoSend ==
  /\ \E body \in SendBodies, suffix \in 1..MaxDemoMessages :
       LET reply == apiSend(messages, body, now, suffix)
       IN /\ (reply.status = 200) => reply.body.messageId \notin DOMAIN messages
          /\ messages' = reply.store
          /\ response' = Some([op |-> "send", request |-> body, status |-> reply.status,
                               body |-> reply.body])
          /\ compose' = IF reply.status = 200
                        THEN [compose EXCEPT !.sent = Put(@, reply.body.messageId, body)]
                        ELSE compose
  /\ UNCHANGED <<now, att, cfg, result, kdf, viewer, relay>>

\* Officer 2 tries to decrypt
DemoDecrypt ==
  /\ \E body \in DecryptBodies :
       LET reply == apiDecrypt(messages, body)
       IN /\ messages' = reply.store
          /\ response' = Some([op |-> "decrypt", request |-> body, status |-> reply.status,
                               body |-> reply.body])
  /\ UNCHANGED <<now, att, cfg, result, kdf, compose, viewer, relay>>

NextDemo == DemoSend \/ DemoDecrypt

DemoSpec == InitDemo /\ [][NextDemo]_vars

\* the last exchange was a decrypt request, complete, for a stored message
DecryptTried ==
  /\ IsSome(response)
  /\ Get(response).op = "decrypt"
  /\ Has(Get(response).request, "currentLat")
  /\ Get(response).request.messageId \in DOMAIN messages

\* the distance of the submitted position to the stored target is a number
\* and at most the stored radius
DecryptWithinRadius ==
  LET req == Get(response).request
      m == messages[req.messageId]
      distance == demoCalculateDistance(req.currentLat, req.currentLon,
                                        m.targetLat, m.targetLon)
  IN IsFinite(distance) /\ distance.num <= m.radiusMeters

\* the answer is success with exactly the text that was sent
DecryptSucceeded ==
  LET r == Get(response)
  IN /\ r.status = 200
     /\ r.body.success
     /\ r.body.message = compose.sent[r.request.messageId].message

\* the answer is a failure with the rounded distance and without a message
\* text
DecryptRefused ==
  LET r == Get(response)
      m == messages[r.request.messageId]
  IN /\ r.status = 200
     /\ ~r.body.success
     /\ ~Has(r.body, "message")
     /\ r.body.distance = MathRound(demoCalculateDistance(r.request.currentLat,
                                        r.request.currentLon, m.targetLat, m.targetLon))

\* C20: for every message stored through /api/send, /api/decrypt answers
\* success with exactly the original text if the submitted position is within
\* the radius of the stored target (distance <= radius), and otherwise
\* success = false with the rounded distance and no message text.
C20_DemoDecrypt ==
  DecryptTried => IF DecryptWithinRadius THEN DecryptSucceeded ELSE DecryptRefused

\* what holds of the demo server: the same for texts without an unpaired
\* surrogate and finite positions
C20_DemoDecryptFinite ==
  (DecryptTried /\ IsFinite(Get(response).request.currentLat)
     /\ WellFormed(compose.sent[Get(response).request.messageId].message.units)) =>
    IF DecryptWithinRadius THEN DecryptSucceeded ELSE DecryptRefused

\* a decrypt attempt leaves the store as it is
DemoStoreUnchanged ==
  [][(IsSome(response') /\ Get(response').op = "decrypt") => messages' = messages]_vars

----------------------------------------------------------------------------
(* HKDF-Expand on its own (ExpandSpec) *)

\* output lengths asked for: none, around one and two blocks, and around the
\* largest the function accepts
ExpandLengths ==
  { 0, 1, HashLen - 1, HashLen, HashLen + 1, 2 * HashLen,
    HashLen * MaxHkdfBlocks - 1, HashLen * MaxHkdfBlocks, HashLen * MaxHkdfBlocks + 1,
    HashLen * (MaxHkdfBlocks + 1) }

ExpandPrks == { hkdfExtract(Salt, [shared |-> {1, 2}]), hkdfExtract(Salt, [shared |-> {1, 3}]) }
ExpandInfos == { locationInfo(lat, 0, RadiusMm, T0, T0 + 1, KeyNonce) : lat \in {0, 10, 20} }

InitExpand ==
  /\ now = T0
  /\ att = None
  /\ cfg = None
  /\ result = None
  /\ messages = <<>>
  /\ response = None
  /\ kdf \in { [phase |-> "expand", prk |-> prk, info |-> info, length |-> length,
                backend |-> None, browser |-> None]
               : prk \in ExpandPrks, info \in ExpandInfos, length \in ExpandLengths }
  /\ compose = IdleCompose
  /\ viewer = IdleViewer
  /\ relay = IdleRelay

\* one call of an hkdfExpand: whether it threw, and what it returned
Expansion(threw, okm) == [threw |-> threw, okm |-> IF threw THEN None ELSE Some(okm)]

ExpandBackend ==
  /\ kdf.backend = None
  /\ kdf' = [kdf EXCEPT !.backend =
               Some(Expansion(hkdfExpandThrows(kdf.length),
                              hkdfExpand(kdf.prk, kdf.info, kdf.length)))]
  /\ UNCHANGED <<now, att, cfg, result, messages, response, compose, viewer, relay>>

ExpandBrowser ==
  /\ kdf.browser = None
  /\ kdf' = [kdf EXCEPT !.browser =
               Some(Expansion(hkdfExpandBrowserThrows(kdf.length),
                              hkdfExpandBrowser(kdf.prk, kdf.info, kdf.length)))]
  /\ UNCHANGED <<now, att, cfg, result, messages, response, compose, viewer, relay>>

NextExpand == ExpandBackend \/ ExpandBrowser

ExpandSpec == InitExpand /\ [][NextExpand]_vars

\* T(i) = HMAC(prk, T(i-1) || info || byte(i)), T(0) being empty and
\* T(i-1) entering under its name
BlockT(prk, info, i) ==
  hmac(prk, <<IF i = 1 THEN None ELSE Some([chain |-> <<prk, info, i - 1>>]), info, i>>)

\* what one expansion must be for the length asked
ExpandsAsSpecified(e) ==
  /\ e.threw <=> kdf.length > MaxHkdfBlocks * HashLen
  /\ ~e.threw =>
       LET okm == Get(e.okm)
           n == (kdf.length + HashLen - 1) \div HashLen
       IN /\ okm.len = kdf.length
          /\ Len(okm.blocks) = n
          /\ \A i \in 1..n : okm.blocks[i] = BlockT(kdf.prk, kdf.info, i)

\* C21: hkdfExpand throws when length > 255 * 32 and otherwise returns
\* exactly `length` bytes, the first `length` bytes of T(1) || ... || T(n)
\* with n = ceil(length / 32); the backend and the browser versions agree on
\* when they throw and on the number of blocks.
C21_ExpandLength ==
  /\ IsSome(kdf.backend) => ExpandsAsSpecified(Get(kdf.backend))
  /\ IsSome(kdf.browser) => ExpandsAsSpecified(Get(kdf.browser))
  /\ (IsSome(kdf.backend) /\ IsSome(kdf.browser)) =>
       /\ Get(kdf.backend).threw = Get(kdf.browser).threw
       /\ ~Get(kdf.backend).threw =>
            Len(Get(Get(kdf.backend).okm).blocks) = Len(Get(Get(kdf.browser).okm).blocks)

\* both versions returned the 8160 bytes of 255 blocks
C21_Witness ==
  /\ kdf.length = MaxHkdfBlocks * HashLen
  /\ IsSome(kdf.backend) /\ IsSome(kdf.browser)
  /\ ~Get(kdf.backend).threw /\ ~Get(kdf.browser).threw
  /\ Len(Get(Get(kdf.backend).okm).blocks) = MaxHkdfBlocks
  /\ Get(Get(kdf.browser).okm).len = MaxHkdfBlocks * HashLen

\* both versions threw for 8161 bytes
C21_WitnessThrows ==
  /\ kdf.length = MaxHkdfBlocks * HashLen + 1
  /\ IsSome(kdf.backend) /\ IsSome(kdf.browser)
  /\ Get(kdf.backend).threw /\ Get(kdf.browser).threw

----------------------------------------------------------------------------
(* The signature of an attestation on its own (SignSpec) *)

\* latitudes in 1e-7 degree: 8996 and 8997 print as the same six decimals,
\* 8994 as others; longitudes likewise with 0 and 3
SignLats == {8994, 8996, 8997}
SignLons == {0, 3, 20}
SignDeviceIds == {"device-1", "device-2"}
SignAccuracies == {5, 6}
SignTimestamps == {T0, T0 + 7}
SignHistories == {None, Some(<<>>), Some(<<[lat |-> 0, lon |-> 0, timestamp |-> T0]>>)}
\* how many fields are altered between the device and the verifier
MaxAlterations == 3

InitSign ==
  /\ now = T0
  /\ att = None
  /\ cfg = None
  /\ result = None
  /\ messages = <<>>
  /\ response = None
  /\ kdf = IdleKdf
  /\ compose = IdleCompose
  /\ viewer = IdleViewer
  /\ relay = IdleRelay

\* a device calls createLocationAttestation; the caller passes the private
\* and the public key separately, and they need not belong together
SignCreate ==
  /\ att = None
  /\ \E lat \in SignLats, h \in SignHistories, sk \in {DeviceKey, OtherKey} :
       LET a == createLocationAttestation("device-1", privateKeyOf(sk),
                  publicKeyOf(DeviceKey), lat, 0, 5, h, now)
       IN /\ att' = Some(a)
          /\ result' = Some([created |-> a, keyPair |-> sk = DeviceKey,
                             alterations |-> 0, checked |-> None])
  /\ UNCHANGED <<now, cfg, messages, response, kdf, compose, viewer, relay>>

\* the attestation a, as anybody holding the key pair k signs it anew
Resigned(a, k) ==
  [a EXCEPT !.signature =
     signMessage(canonicalMessage(a.deviceId, a.latitude, a.longitude,
                                  a.accuracy, a.timestamp), privateKeyOf(k))]

\* one field of the attestation is replaced on its way to the verifier
SignAlter ==
  /\ IsSome(att)
  /\ Get(result).checked = None
  /\ Get(result).alterations < MaxAlterations
  /\ \/ \E id \in SignDeviceIds : att' = Some([Get(att) EXCEPT !.deviceId = id])
     \/ \E lat \in SignLats : att' = Some([Get(att) EXCEPT !.latitude = lat])
     \/ \E lon \in SignLons : att' = Some([Get(att) EXCEPT !.longitude = lon])
     \/ \E acc \in SignAccuracies : att' = Some([Get(att) EXCEPT !.accuracy = acc])
     \/ \E t \in SignTimestamps : att' = Some([Get(att) EXCEPT !.timestamp = t])
     \/ \E h \in SignHistories : att' = Some([Get(att) EXCEPT !.movementHistory = h])
     \/ att' = Some([Get(att) EXCEPT !.devicePublicKey = publicKeyOf(OtherKey)])
     \/ att' = Some([Get(att) EXCEPT !.signature.size = SignatureBytes - 1])
     \/ att' = Some(Resigned(Get(att), OtherKey))
  /\ att' # att
  /\ result' = Some([Get(result) EXCEPT !.alterations = @ + 1])
  /\ UNCHANGED <<now, cfg, messages, response, kdf, compose, viewer, relay>>

\* the verifier calls verifyAttestationSignature on what it received
SignVerify ==
  /\ IsSome(att)
  /\ Get(result).checked = None
  /\ result' = Some([Get(result) EXCEPT !.checked =
         Some([attestation |-> Get(att),
               threw |-> verifySignatureThrows(Get(att).signature),
               outcome |-> IF verifySignatureThrows(Get(att).signature) THEN None
                           ELSE Some(verifyAttestationSignature(Get(att)))])])
  /\ UNCHANGED <<now, att, cfg, messages, response, kdf, compose, viewer, relay>>

NextSign == SignCreate \/ SignAlter \/ SignVerify

SignSpec == InitSign /\ [][NextSign]_vars

SignChecked == IsSome(result) /\ IsSome(Get(result).checked)
SignCreated == Get(result).created
SignReceived == Get(Get(result).checked).attestation
SignThrew == Get(Get(result).checked).threw
SignOutcome == Get(Get(Get(result).checked).outcome)

\* the five signed fields, the coordinates as their six decimals
SignedFields(a) ==
  <<a.deviceId, toFixed6(a.latitude), toFixed6(a.longitude), a.accuracy, a.timestamp>>

\* a coordinate that prints as the six decimals d
OfSixDecimals(d) ==
  IF d.micro = 0 THEN (IF d.neg THEN -1 ELSE 0)
  ELSE (IF d.neg THEN -10 * d.micro ELSE 10 * d.micro)

\* an attestation that shares with a the five signed fields, the signature
\* and the declared public key, and nothing else
SignedPart(a) ==
  [deviceId |-> a.deviceId,
   devicePublicKey |-> a.devicePublicKey,
   latitude |-> OfSixDecimals(toFixed6(a.latitude)),
   longitude |-> OfSixDecimals(toFixed6(a.longitude)),
   accuracy |-> a.accuracy,
   timestamp |-> a.timestamp,
   movementHistory |-> None,
   signature |-> a.signature]

SameSignatureAndKey(a, b) ==
  a.signature = b.signature /\ a.devicePublicKey = b.devicePublicKey

\* C22: the outcome of verifyAttestationSignature depends only on deviceId,
\* latitude and longitude at 6 decimal places, accuracy, timestamp, the
\* signature and the declared devicePublicKey; an attestation produced by
\* createLocationAttestation (with a key pair) verifies; while it keeps its
\* signature and key, a change of any of the five signed fields makes
\* verification fail, and a change of movementHistory or of anything else
\* leaves the outcome as it was.
C22_SignatureCoverage ==
  SignChecked =>
    /\ SignThrew <=> verifySignatureThrows(SignedPart(SignReceived).signature)
    /\ ~SignThrew => SignOutcome = verifyAttestationSignature(SignedPart(SignReceived))
    /\ (Get(result).keyPair /\ SignReceived = SignCreated) => (~SignThrew /\ SignOutcome)
    /\ (Get(result).keyPair /\ SameSignatureAndKey(SignReceived, SignCreated)) =>
         /\ ~SignThrew
         /\ SignOutcome <=> SignedFields(SignReceived) = SignedFields(SignCreated)

\* a signed field was changed after signing and the verification failed
C22_Witness ==
  /\ SignChecked
  /\ Get(result).keyPair
  /\ SameSignatureAndKey(SignReceived, SignCreated)
  /\ SignReceived.timestamp # SignCreated.timestamp
  /\ ~SignThrew /\ ~SignOutcome

\* only movementHistory and digits of the latitude beyond the sixth decimal
\* were changed, and the verification succeeded
C22_WitnessUnsigned ==
  /\ SignChecked
  /\ Get(result).keyPair
  /\ SignReceived.movementHistory # SignCreated.movementHistory
  /\ SignReceived.latitude # SignCreated.latitude
  /\ ~SignThrew /\ SignOutcome

\* a payload changed and signed anew under the key the attestation then
\* declares verifies
C22_WitnessDeclaredKey ==
  /\ SignChecked
  /\ SignReceived.devicePublicKey = publicKeyOf(OtherKey)
  /\ SignedFields(SignReceived) # SignedFields(SignCreated)
  /\ ~SignThrew /\ SignOutcome

----------------------------------------------------------------------------
(* Repeated verification of one attestation (PuritySpec) *)

\* the caller's attestation with its movementHistory sorted in place;
\* defined for comparison
attestationSortedInPlace(attestation) ==
  [attestation EXCEPT !.movementHistory =
     IF IsSome(@) THEN Some(SortByTimestamp(Get(@))) ELSE @]

\* the caller's attestation after verifyLocationAttestation returned:
\* checkMovementPlausibility and verifyContinuousPresence sort a copy,
\* [...movementHistory], and nothing else is assigned
attestationAfterVerify(attestation) == attestation

\* movement histories: absent, in timestamp order, and out of it
PurityHistories ==
  { None,
    Some(<<[lat |-> 0, lon |-> 0, timestamp |-> T0 - 1000],
           [lat |-> 0, lon |-> 0, timestamp |-> T0]>>),
    Some(<<[lat |-> 0, lon |-> 0, timestamp |-> T0],
           [lat |-> 0, lon |-> 0, timestamp |-> T0 - 1000]>>) }

\* calls of verifyLocationAttestation that are compared
MaxCalls == 2

InitPurity ==
  /\ now = T0
  /\ att = None
  /\ cfg \in Configs
  /\ result = Some(<<>>)
  /\ messages = <<>>
  /\ response = None
  /\ kdf = IdleKdf
  /\ compose = IdleCompose
  /\ viewer = IdleViewer
  /\ relay = IdleRelay

\* time passes on the verifier; earlier results stay with their callers
PurityTick ==
  /\ \E d \in ClockOffsets :
       /\ T0 + d > now
       /\ now' = T0 + d
  /\ UNCHANGED <<att, cfg, result, messages, response, kdf, compose, viewer, relay>>

\* the verifier receives an attestation, signed by the device or by a key
\* that is not the declared one
PurityReceive ==
  /\ att = None
  /\ \E lat \in Lats, h \in PurityHistories, skew \in ClockSkews, sk \in {DeviceKey, OtherKey} :
       att' = Some(createLocationAttestation("device-1", privateKeyOf(sk),
                     publicKeyOf(DeviceKey), lat, 0, 5, h, now + skew))
  /\ UNCHANGED <<now, cfg, result, messages, response, kdf, compose, viewer, relay>>

\* one call of verifyLocationAttestation on the attestation held; the caller
\* keeps the attestation and the config objects as the call leaves them
PurityVerify ==
  /\ IsSome(att)
  /\ Len(Get(result)) < MaxCalls
  /\ result' = Some(Append(Get(result),
         [call |-> Verification(Get(att), cfg, now),
          attestationAfter |-> attestationAfterVerify(Get(att)),
          configAfter |-> cfg,
          storeAfter |-> messages]))
  /\ att' = Some(attestationAfterVerify(Get(att)))
  /\ UNCHANGED <<now, cfg, messages, response, kdf, compose, viewer, relay>>

NextPurity == PurityTick \/ PurityReceive \/ PurityVerify

PuritySpec == InitPurity /\ [][NextPurity]_vars

CalledTwice == IsSome(result) /\ Len(Get(result)) = 2
FirstCall == Get(result)[1].call
SecondCall == Get(result)[2].call
FreshAt(c) ==
  isAttestationFresh(c.attestation.timestamp,
     OrElse(c.config.maxAttestationAgeSec, DefaultMaxAttestationAgeSec), c.at)
SameOutcome(c, d) == c.threw = d.threw /\ c.value = d.value

----------------------------------------------------------------------------
(* The WebSocket signaling server (RelaySpec) *)

\* the connections clients open, each a WebSocket object of its own
Sockets == {"ws1", "ws2", "ws3"}
\* the `from` of a register message: absent, or an id the client chose
RegisterFroms == {None, Some("alice"), Some("bob")}
\* the `to` of an offer: absent (broadcast), or an id
OfferTos == {None, Some("alice"), Some("bob")}

\* ws.readyState === WebSocket.OPEN: from the connection event, which adds
\* ws to peers, to the close event, which deletes it
IsOpen(ws) == ws \in relay.peers

InitRelay ==
  /\ now = T0
  /\ att = None
  /\ cfg = None
  /\ result = None
  /\ messages = <<>>
  /\ response = None
  /\ kdf = IdleKdf
  /\ compose = IdleCompose
  /\ viewer = IdleViewer
  /\ relay = IdleRelay

\* wss.on('connection'): let peerId = null; peers.add(ws)
RelayConnect ==
  /\ \E ws \in Sockets :
       /\ ws \notin DOMAIN relay.peerId
       /\ relay' = [relay EXCEPT !.peers = @ \cup {ws},
                                 !.peerId = Put(@, ws, None)]
  /\ response' = None
  /\ UNCHANGED <<now, att, cfg, result, messages, kdf, compose, viewer>>

\* a 'register' message on ws: the id is message.from or `peer-${Date.now()}`;
\* the peer list goes back on ws
RelayRegister ==
  /\ \E ws \in Sockets, from \in RegisterFroms :
       LET id == IF IsSome(from) THEN Get(from) ELSE "peer-" \o ToString(now)
           connected == Put(relay.connectedPeers, id, ws)
       IN /\ IsOpen(ws)
          /\ relay' = [relay EXCEPT !.connectedPeers = connected,
                                    !.peerId = Put(@, ws, Some(id))]
          /\ response' = Some({[socket |-> ws, type |-> "peer-list",
                                peers |-> DOMAIN connected \ {id}]})
  /\ UNCHANGED <<now, att, cfg, result, messages, kdf, compose, viewer>>

\* an 'offer' on ws (answer and ice-candidate take the same branch): to the
\* socket connectedPeers has for message.to when that socket is open, or,
\* without a `to`, to every other open socket in peers
RelayForward ==
  /\ \E ws \in Sockets, to \in OfferTos :
       /\ IsOpen(ws)
       /\ response' =
            Some({ [socket |-> peer, type |-> "offer", to |-> to] :
                   peer \in IF IsSome(to)
                            THEN { p \in Sockets :
                                     /\ Get(to) \in DOMAIN relay.connectedPeers
                                     /\ relay.connectedPeers[Get(to)] = p
                                     /\ IsOpen(p) }
                            ELSE { p \in relay.peers \ {ws} : IsOpen(p) } })
  /\ UNCHANGED <<now, att, cfg, result, messages, kdf, compose, viewer, relay>>

\* ws.on('close'): connectedPeers.delete(peerId) when peerId is set, then
\* peers.delete(ws)
RelayClose ==
  /\ \E ws \in Sockets :
       /\ IsOpen(ws)
       /\ relay' = [peers |-> relay.peers \ {ws},
                    connectedPeers |->
                      IF IsSome(relay.peerId[ws])
                      THEN Remove(relay.connectedPeers, Get(relay.peerId[ws]))
                      ELSE relay.connectedPeers,
                    peerId |-> relay.peerId]
  /\ response' = None
  /\ UNCHANGED <<now, att, cfg, result, messages, kdf, compose, viewer>>

NextRelay == RelayConnect \/ RelayRegister \/ RelayForward \/ RelayClose

RelaySpec == InitRelay /\ [][NextRelay]_vars

\* C26: a registered peer whose connection is open stays addressable:
\* connectedPeers maps its id to its own socket until that connection closes;
\* a register or a close by another connection, including one using the same
\* id, never removes or redirects it.
C26_StaysAddressable ==
  \A ws \in Sockets :
    (IsOpen(ws) /\ IsSome(relay.peerId[ws])) =>
      /\ Get(relay.peerId[ws]) \in DOMAIN relay.connectedPeers
      /\ relay.connectedPeers[Get(relay.peerId[ws])] = ws

\* C27: every socket in connectedPeers is also in peers, and after a
\* connection closes no entry of connectedPeers refers to its socket,
\* including when it registered more than once under different ids.
C27_NoStaleEntries ==
  \A id \in DOMAIN relay.connectedPeers : relay.connectedPeers[id] \in relay.peers

----------------------------------------------------------------------------
(* The compose wizard and the answers to its POST (ComposeSpec) *)

\* what `await fetch(...)` followed by `await response.json()` gives the
\* page: the JSON answer of app.post('/api/messages') to the body sent, a
\* JSON error answer of that endpoint (which stores nothing), an answer that
\* is not JSON (Express's own error pages), or no answer (network failure)
FetchOutcomes(store, sealed) ==
  { [kind |-> "json", reply |-> postMessage(store, sealed)],
    [kind |-> "json", reply |-> Reply(400, [error |-> "Invalid message format"], store)],
    [kind |-> "json", reply |-> Reply(500, InternalError, store)],
    [kind |-> "html", reply |-> Reply(404, None, store)],
    [kind |-> "failed", reply |-> Reply(0, None, store)] }

\* handleEncrypt from `const result = await response.json()` on: any JSON
\* answer leads to setMessageId(result.messageId) and setStep('done');
\* a rejected fetch or json() leads to the catch, which alerts; the finally
\* clause clears `encrypting`; the step set at the start stays 'encrypt'
handleEncryptAfterFetch(state, sealed, fetched) ==
  IF fetched.kind = "json"
  THEN [step |-> "done", message |-> state.message,
        recipientPublicKey |-> state.recipientPublicKey, sealed |-> sealed,
        messageId |-> IF Has(fetched.reply.body, "messageId")
                      THEN Some(fetched.reply.body.messageId) ELSE None,
        encrypting |-> FALSE]
  ELSE [step |-> "encrypt", message |-> state.message,
        recipientPublicKey |-> state.recipientPublicKey,
        alert |-> "Encryption failed", encrypting |-> FALSE]

InitCompose ==
  /\ now = T0
  /\ att = None
  /\ cfg = None
  /\ result = None
  /\ messages = <<>>
  /\ response = None
  /\ kdf = IdleKdf
  /\ compose = IdleCompose
  /\ viewer = IdleViewer
  /\ relay = IdleRelay

\* BACK on the location step
ComposeBack ==
  /\ compose.step = "location"
  /\ compose' = [compose EXCEPT !.step = "compose"]
  /\ UNCHANGED <<now, att, cfg, result, messages, response, kdf, viewer, relay>>

\* ENCRYPT & STORE: handleEncrypt as a whole
ComposeEncrypt ==
  /\ compose.step = "location"
  /\ IF computeSharedSecretThrows(generateX25519KeyPair(SenderKey).privateKey,
                                  compose.recipientPublicKey)
     THEN /\ compose' = [step |-> "encrypt", message |-> compose.message,
                         recipientPublicKey |-> compose.recipientPublicKey,
                         alert |-> "Encryption failed", encrypting |-> FALSE]
          /\ UNCHANGED <<messages, response>>
     ELSE LET sealed == storedMessage(compose.message, "",
                                      [lat |-> TargetLat, lon |-> TargetLon], RadiusMm,
                                      1, compose.recipientPublicKey, now)
          IN \E fetched \in FetchOutcomes(messages, sealed) :
               /\ messages' = fetched.reply.store
               /\ response' = Some(Exchange("post", sealed.id, None, now, fetched.reply))
               /\ compose' = handleEncryptAfterFetch(compose, sealed, fetched)
  /\ UNCHANGED <<now, att, cfg, result, kdf, viewer, relay>>

NextCompose == TickSeal \/ GoToLocation \/ ComposeBack \/ ComposeEncrypt

ComposeSpec == InitCompose /\ [][NextCompose]_vars

\* C28: the ComposeMessage step becomes 'done' only if the backend accepted
\* and stored the message; when the POST /api/messages response is an error
\* (400 or 500) the step does not become 'done'.
C28_DoneOnlyWhenStored ==
  [][(compose'.step = "done" /\ compose.step # "done") =>
       /\ IsSome(response')
       /\ Get(response').status = 200
       /\ compose'.sealed.id \in DOMAIN messages'
       /\ messages'[compose'.sealed.id] = compose'.sealed]_vars

\* C29: after handleEncrypt finishes, whether it succeeded or threw, the
\* wizard is not left in the 'encrypt' step, so that the user can get back
\* to 'compose' or 'location' and retry.
C29_NotLeftInEncrypt ==
  (Has(compose, "encrypting") /\ ~compose.encrypting) => compose.step # "encrypt"

====
